---- MODULE Spec2Model ----
(***************************************************************************)
(* A model of the video downloader (src/video_downloader.py) and of its    *)
(* predecessor (src/legacy/xhs_downloader.py): the platform classifier,    *)
(* the filename sanitizer, the three video locators, the collision-free    *)
(* output path, the QR decoding cascade and the orchestrator.              *)
(*                                                                         *)
(* Text is a sequence of one-character strings, so that substring tests,   *)
(* case folding, regular-expression substitutions and slicing are computed *)
(* as the code computes them.                                              *)
(***************************************************************************)
EXTENDS Integers, Sequences, FiniteSets, TLC

VARIABLES
    url,         \* classifier: the URL passed to detect_platform
    platform,    \* classifier: the result of detect_platform, NoResult before the call
    original,    \* sanitizer: the text first passed to the sanitizer
    filename,    \* sanitizer: the current text (the last output once called)
    previous,    \* sanitizer: the text passed to the last call
    variant,     \* sanitizer: which sanitizer ran last ("none", "current", "legacy")
    ncalls,      \* sanitizer: how many times the sanitizer has been applied
    locator,     \* locator: which get_video_info is called ("xhs", "weibo", "instagram")
    post,        \* locator: the post URL passed to get_video_info
    upstream,    \* locator: what the platform answers (page, API response, extractor outcomes)
    located,     \* locator: the result of get_video_info, NotCalled before it returns
    net,         \* locator: the requests get_video_info has made, in order
    cookies,     \* Instagram: the downloader's cookies_file and cookies_from_browser
    attempts,    \* Instagram: the options and the outcome of each _extract_info call, in order
    igpc,        \* Instagram: where get_video_info stands ("first", "retry", "done"; "none" elsewhere)
    files,       \* output path: the paths for which os.path.exists is true
    requested,   \* output path: the path passed to get_unique_path
    output_path, \* output path: the local output_path of get_unique_path
    counter,     \* output path: the local counter of get_unique_path
    gpc,         \* output path: where get_unique_path stands ("idle" before a call, "loop", "returned"; "none" elsewhere)
    results,     \* output path: the paths get_unique_path has returned, in order
    image,       \* QR decoder: the image file and what each decoding attempt finds in it
    qpc,         \* QR decoder: the statement of read_qrcode that runs next
    scales,      \* QR decoder: the scale factors the current loop has still to try
    tried,       \* QR decoder: the decoding attempts made so far, in order
    decoded,     \* QR decoder: the result of read_qrcode, NoResult before it ends
    program,     \* orchestrator: which download_from_screenshot runs ("current", "legacy")
    qr,          \* orchestrator: what read_qrcode comes to for the screenshot
    opc,         \* orchestrator: the stage of download_from_screenshot that runs next
    stages,      \* orchestrator: the stages entered so far, in order
    finished,    \* orchestrator: the result of download_from_screenshot, NoResult before it ends
    inputs,      \* batch: what download_from_screenshot comes to for each of args.input
    idx,         \* batch: the loop variable i of main (1-based)
    success,     \* batch: the counter success
    failed,      \* batch: the counter failed
    bpc,         \* batch: where main stands ("item", "call", "sleep", "summary", "exited"; "none" elsewhere)
    runs,        \* batch: the calls of download_from_screenshot made so far, with their times
    delays,      \* batch: the calls of time.sleep made so far, with their times
    now,         \* batch: the clock, in seconds
    exit_status, \* batch: the argument of sys.exit, -1 before the exit
    sid_url,     \* status id: the URL passed to extract_status_id
    sid          \* status id: the result of extract_status_id, NoResult before the call

clsVars == <<url, platform>>
sanVars == <<original, filename, previous, variant, ncalls>>
locVars == <<locator, post, upstream, located, net, cookies, attempts, igpc>>
pathVars == <<files, requested, output_path, counter, gpc, results>>
qrVars == <<image, qpc, scales, tried, decoded>>
orchVars == <<program, qr, opc, stages, finished>>
batchVars == <<inputs, idx, success, failed, bpc, runs, delays, now, exit_status>>
sidVars == <<sid_url, sid>>
vars == <<clsVars, sanVars, locVars, pathVars, qrVars, orchVars, batchVars, sidVars>>

-----------------------------------------------------------------------------
(* Text helpers *)

\* every sequence over alphabet of length 0..n
RECURSIVE SeqsUpTo(_, _)
SeqsUpTo(alphabet, n) ==
    IF n = 0 THEN {<<>>}
    ELSE LET shorter == SeqsUpTo(alphabet, n - 1)
         IN shorter \cup {Append(s, c) : s \in {t \in shorter : Len(t) = n - 1}, c \in alphabet}

\* n copies of the character c
Repeat(c, n) == [i \in 1..n |-> c]

\* every concatenation of 0..n members of pieces
RECURSIVE Concats(_, _)
Concats(pieces, n) ==
    IF n = 0 THEN {<<>>}
    ELSE LET shorter == Concats(pieces, n - 1)
         IN shorter \cup {s \o p : s \in shorter, p \in pieces}

UpperCase == <<"A", "B", "C", "D", "E", "F", "G", "H", "I", "J", "K", "L", "M",
               "N", "O", "P", "Q", "R", "S", "T", "U", "V", "W", "X", "Y", "Z">>
LowerCase == <<"a", "b", "c", "d", "e", "f", "g", "h", "i", "j", "k", "l", "m",
               "n", "o", "p", "q", "r", "s", "t", "u", "v", "w", "x", "y", "z">>

\* str.lower() on one character of the alphabet in use
LowerChar(c) ==
    IF \E i \in 1..Len(UpperCase) : UpperCase[i] = c
    THEN LowerCase[CHOOSE i \in 1..Len(UpperCase) : UpperCase[i] = c]
    ELSE c

\* str.lower()
Lower(s) == [i \in 1..Len(s) |-> LowerChar(s[i])]

\* `needle in s`
Contains(s, needle) ==
    \E i \in 0..(Len(s) - Len(needle)) :
        \A j \in 1..Len(needle) : s[i + j] = needle[j]

\* s[:n]
Take(s, n) == IF Len(s) <= n THEN s ELSE SubSeq(s, 1, n)

\* the outcome of a call: a returned value or a raised error
Returned(v) == [ok |-> TRUE, val |-> v, err |-> "none"]
Raised(e) == [ok |-> FALSE, val |-> <<>>, err |-> e]
NoResult == [ok |-> FALSE, val |-> <<>>, err |-> "not called"]

-----------------------------------------------------------------------------
(* Platform classifier: detect_platform *)

WEIBO_COM == <<"w", "e", "i", "b", "o", ".", "c", "o", "m">>
WEIBO_CN == <<"w", "e", "i", "b", "o", ".", "c", "n">>
XIAOHONGSHU_COM == <<"x", "i", "a", "o", "h", "o", "n", "g", "s", "h", "u", ".", "c", "o", "m">>
XHSLINK_COM == <<"x", "h", "s", "l", "i", "n", "k", ".", "c", "o", "m">>
INSTAGRAM_COM == <<"i", "n", "s", "t", "a", "g", "r", "a", "m", ".", "c", "o", "m">>

TagWeibo == <<"w", "e", "i", "b", "o">>
TagXiaohongshu == <<"x", "i", "a", "o", "h", "o", "n", "g", "s", "h", "u">>
TagInstagram == <<"i", "n", "s", "t", "a", "g", "r", "a", "m">>

\* the first branch of detect_platform changed to test only weibo.com
detect_platform_no_cn(u) ==
    LET url_lower == Lower(u)
    IN IF Contains(url_lower, WEIBO_COM)
       THEN Returned(TagWeibo)
       ELSE IF Contains(url_lower, XIAOHONGSHU_COM) \/ Contains(url_lower, XHSLINK_COM)
       THEN Returned(TagXiaohongshu)
       ELSE IF Contains(url_lower, INSTAGRAM_COM)
       THEN Returned(TagInstagram)
       ELSE Raised("UnknownPlatform")

detect_platform(u) ==
    LET url_lower == Lower(u)
    IN IF Contains(url_lower, WEIBO_COM) \/ Contains(url_lower, WEIBO_CN)
       THEN Returned(TagWeibo)
       ELSE IF Contains(url_lower, XIAOHONGSHU_COM) \/ Contains(url_lower, XHSLINK_COM)
       THEN Returned(TagXiaohongshu)
       ELSE IF Contains(url_lower, INSTAGRAM_COM)
       THEN Returned(TagInstagram)
       ELSE Raised("UnknownPlatform")

\* how many pieces a classified URL is made of
MaxPieces == 3

UrlPieces ==
    { <<"h", "t", "t", "p", "s", ":", "/", "/">>,
      WEIBO_COM,
      <<"W", "e", "i", "b", "o", ".", "C", "N">>,
      XIAOHONGSHU_COM,
      <<"X", "H", "S", "L", "I", "N", "K", ".", "c", "o", "m">>,
      <<"w", "w", "w", ".", "I", "n", "s", "t", "a", "g", "r", "a", "m", ".", "C", "O", "M">>,
      <<"w", "e", "i", "b", "o">>,
      <<"i", "n", "s", "t", "a", "g", "r", "a", "m">>,
      <<".", "c", "o", "m">>,
      <<".", "c", "n">>,
      <<"/", "p", "/", "1">> }

UrlInputs == Concats(UrlPieces, MaxPieces)

ClsIdle == url = <<>> /\ platform = NoResult

ClsInit == url \in UrlInputs /\ platform = NoResult

Classify ==
    /\ platform = NoResult
    /\ platform' = detect_platform(url)
    /\ UNCHANGED url

-----------------------------------------------------------------------------
(* Filename sanitizer: sanitize_filename and the legacy _sanitize_filename *)

\* filename.strip()[:50]
MaxNameLen == 50

\* the characters re.sub(r'[<>:"/\\|?*\n\r]', '', ...) removes
InvalidChars == {"<", ">", ":", "\"", "/", "\\", "|", "?", "*", "\n", "\r"}

\* the characters str.strip() removes, among those of the alphabet in use
Whitespace == {" ", "\t", "\n", "\r"}

\* whether position k of s lies in a match of <[^>]+>: between a "<" and the
\* first ">" after it, at least one character apart. The leftmost such "<"
\* after the previous ">" opens the match, so the matches do not overlap.
InTag(s, k) ==
    \E i \in 1..k, j \in k..Len(s) :
        /\ s[i] = "<"
        /\ s[j] = ">"
        /\ j >= i + 2
        /\ \A m \in i..(j - 1) : s[m] # ">"

\* re.sub(r'<[^>]+>', '', s): the characters outside every match, in order
StripTags(s) ==
    LET marked == [k \in 1..Len(s) |-> IF InTag(s, k) THEN "" ELSE s[k]]
    IN SelectSeq(marked, LAMBDA c : c # "")

\* re.sub(r'[<>:"/\\|?*\n\r]', '', s)
RemoveInvalid(s) == SelectSeq(s, LAMBDA c : c \notin InvalidChars)

\* str.strip(): from the first to the last character that is no whitespace
Strip(s) ==
    LET solid == {k \in 1..Len(s) : s[k] \notin Whitespace}
    IN IF solid = {} THEN <<>>
       ELSE SubSeq(s, CHOOSE k \in solid : \A m \in solid : k <= m,
                      CHOOSE k \in solid : \A m \in solid : k >= m)

VIDEO == <<"v", "i", "d", "e", "o">>
XHS_VIDEO == <<"x", "h", "s", "_", "v", "i", "d", "e", "o">>

\* sanitize_filename without the [:50] slice
sanitize_filename_unbounded(name) ==
    LET cut == Strip(RemoveInvalid(StripTags(name)))
    IN IF cut # <<>> THEN cut ELSE VIDEO

sanitize_filename(name) ==
    LET cut == Take(Strip(RemoveInvalid(StripTags(name))), MaxNameLen)
    IN IF cut # <<>> THEN cut ELSE VIDEO

\* XHSDownloader._sanitize_filename
legacy_sanitize_filename(name) ==
    LET cut == Take(Strip(RemoveInvalid(name)), MaxNameLen)
    IN IF cut # <<>> THEN cut ELSE XHS_VIDEO

\* the longest text drawn in full from the alphabet
MaxShort == 3

\* how many times a text is passed through the sanitizer
MaxCalls == 2

TitleAlphabet == {"a", " ", "<", ">", "/", "\n"}

ShortTitles == SeqsUpTo(TitleAlphabet, MaxShort)

\* texts around the length limit: a run of "a" followed by a short text
LongTitles ==
    {Repeat("a", n) \o t : n \in (MaxNameLen - MaxShort)..MaxNameLen, t \in ShortTitles}

TitleInputs == ShortTitles \cup LongTitles

SanIdle ==
    /\ original = <<>> /\ filename = <<>> /\ previous = <<>>
    /\ variant = "none" /\ ncalls = 0

SanInit ==
    /\ original \in TitleInputs
    /\ filename = original
    /\ previous = original
    /\ variant = "none"
    /\ ncalls = 0

Sanitize ==
    /\ ncalls < MaxCalls
    /\ variant \in {"none", "current"}
    /\ previous' = filename
    /\ filename' = sanitize_filename(filename)
    /\ variant' = "current"
    /\ ncalls' = ncalls + 1
    /\ UNCHANGED original

SanitizeLegacy ==
    /\ ncalls < MaxCalls
    /\ variant \in {"none", "legacy"}
    /\ previous' = filename
    /\ filename' = legacy_sanitize_filename(filename)
    /\ variant' = "legacy"
    /\ ncalls' = ncalls + 1
    /\ UNCHANGED original


-----------------------------------------------------------------------------
(* Video locators: what get_video_info returns *)

\* Python's None, an absent key included where the code reads it with .get()
None == <<"None">>

\* `if value:` on a text or None
Truthy(v) == v # None /\ v # <<>>

Located(video_url, title) ==
    [ok |-> TRUE, video_url |-> video_url, title |-> title, err |-> "none"]
NotLocated(e) == [ok |-> FALSE, video_url |-> None, title |-> None, err |-> e]
NotCalled == [ok |-> FALSE, video_url |-> None, title |-> None, err |-> "not called"]

\* one request of a session: what is asked and of which address
Request(kind, address) == [kind |-> kind, address |-> address]

-----------------------------------------------------------------------------
(* Pattern search over text, as re.search computes it *)

\* whether lit stands in s at position i
StartsAt(s, i, lit) ==
    /\ i + Len(lit) - 1 <= Len(s)
    /\ \A j \in 1..Len(lit) : s[i + j - 1] = lit[j]

\* the first position at or after i whose character is not in chars, Len(s) + 1
\* when there is none
SkipWhile(s, i, chars) ==
    CHOOSE j \in i..(Len(s) + 1) :
        /\ j = Len(s) + 1 \/ s[j] \notin chars
        /\ \A k \in i..(j - 1) : s[k] \in chars

\* \s* from position i: the first position at or after i that holds no whitespace
SkipSpaces(s, i) == SkipWhile(s, i, Whitespace)

\* the first position at or after i that holds c, Len(s) + 1 when there is none
FirstOf(s, i, c) ==
    CHOOSE j \in i..(Len(s) + 1) :
        /\ j = Len(s) + 1 \/ s[j] = c
        /\ \A k \in i..(j - 1) : s[k] # c

\* key \s*:\s* opener (prefix[^"]+)" matched at position i: the capture, or None
FieldAt(s, i, key, opener, prefix) ==
    IF ~StartsAt(s, i, key) THEN None
    ELSE LET colon == SkipSpaces(s, i + Len(key))
         IN IF ~StartsAt(s, colon, <<":">>) THEN None
            ELSE LET open == SkipSpaces(s, colon + 1)
                 IN IF ~StartsAt(s, open, opener \o prefix) THEN None
                    ELSE LET first == open + Len(opener)
                             rest == first + Len(prefix)
                             close == FirstOf(s, rest, "\"")
                         IN IF close > rest /\ close <= Len(s)
                            THEN SubSeq(s, first, close - 1)
                            ELSE None

\* the least member of a non-empty set of positions
Leftmost(positions) == CHOOSE i \in positions : \A j \in positions : i <= j

\* re.search of key \s*:\s* opener (prefix[^"]+)": group(1) of the leftmost match, or None
SearchField(s, key, opener, prefix) ==
    LET matches == {i \in 1..Len(s) : FieldAt(s, i, key, opener, prefix) # None}
    IN IF matches = {} THEN None
       ELSE FieldAt(s, Leftmost(matches), key, opener, prefix)

HTTP == <<"h", "t", "t", "p">>
QUOTE == <<"\"">>
KEY_MASTER_URL == <<"\"", "m", "a", "s", "t", "e", "r", "U", "r", "l", "\"">>
KEY_BACKUP_URLS == <<"\"", "b", "a", "c", "k", "u", "p", "U", "r", "l", "s", "\"">>
KEY_TITLE == <<"\"", "t", "i", "t", "l", "e", "\"">>
U002F == <<"u", "0", "0", "2", "F">>

\* video_url.encode('utf-8').decode('unicode_escape') from position i on: the
\* escape of a slash (backslash u002F) becomes /, an unknown escape such as \/ stays, a truncated escape raises
RECURSIVE UnescapeFrom(_, _)
UnescapeFrom(s, i) ==
    IF i > Len(s) THEN Returned(<<>>)
    ELSE IF s[i] # "\\"
    THEN LET rest == UnescapeFrom(s, i + 1)
         IN IF rest.ok THEN Returned(<<s[i]>> \o rest.val) ELSE rest
    ELSE IF StartsAt(s, i + 1, U002F)
    THEN LET rest == UnescapeFrom(s, i + 1 + Len(U002F))
         IN IF rest.ok THEN Returned(<<"/">> \o rest.val) ELSE rest
    ELSE IF StartsAt(s, i + 1, <<"/">>)
    THEN LET rest == UnescapeFrom(s, i + 2)
         IN IF rest.ok THEN Returned(<<"\\", "/">> \o rest.val) ELSE rest
    ELSE Raised("UnicodeDecodeError")

unicode_escape(s) == UnescapeFrom(s, 1)


-----------------------------------------------------------------------------
(* XiaohongshuDownloader.get_video_info *)

PLACEHOLDER_TITLE == <<"x", "h", "s", "_", "v", "i", "d", "e", "o">>

\* the title of a page: the sanitized first title field, or the placeholder
xhs_title(html) ==
    LET title_match == SearchField(html, KEY_TITLE, QUOTE, <<>>)
    IN IF title_match # None THEN sanitize_filename(title_match) ELSE PLACEHOLDER_TITLE

\* the two patterns tried in the other order
xhs_parse_backup_first(html) ==
    LET master == SearchField(html, KEY_MASTER_URL, QUOTE, HTTP)
        backup == SearchField(html, KEY_BACKUP_URLS, <<"[", "\"">>, HTTP)
        match == IF backup # None THEN backup ELSE master
    IN IF match = None THEN NotLocated("NoVideoFound")
       ELSE LET video_url == unicode_escape(match)
            IN IF ~video_url.ok THEN NotLocated(video_url.err)
               ELSE Located(video_url.val, xhs_title(html))

\* lines 224-244: the loop over video_patterns, its return and the final raise
xhs_parse(html) ==
    LET master == SearchField(html, KEY_MASTER_URL, QUOTE, HTTP)
        backup == SearchField(html, KEY_BACKUP_URLS, <<"[", "\"">>, HTTP)
        match == IF master # None THEN master ELSE backup
    IN IF match = None THEN NotLocated("NoVideoFound")
       ELSE LET video_url == unicode_escape(match)
            IN IF ~video_url.ok THEN NotLocated(video_url.err)
               ELSE Located(video_url.val, xhs_title(html))

\* the requests of get_video_info(u): the redirect resolution of a short link
\* (answered by redirect), then the page fetch (answered by fetched)
xhs_requests(u, redirect) ==
    IF Contains(u, XHSLINK_COM)
    THEN IF redirect.ok
         THEN <<Request("resolve", u), Request("get", redirect.val)>>
         ELSE <<Request("resolve", u)>>
    ELSE <<Request("get", u)>>

xhs_get_video_info(u, redirect, fetched) ==
    IF Contains(u, XHSLINK_COM) /\ ~redirect.ok THEN NotLocated(redirect.err)
    ELSE IF ~fetched.ok THEN NotLocated(fetched.err)
    ELSE xhs_parse(fetched.val)

\* how many fragments a page is made of
MaxPageParts == 2

PageParts ==
    { <<"\"", "m", "a", "s", "t", "e", "r", "U", "r", "l", "\"", ":", "\"", "h", "t", "t", "p", ":", "\\", "u", "0", "0", "2", "F", "\\", "u", "0", "0", "2", "F", "m", "\"">>,
      <<"\"", "m", "a", "s", "t", "e", "r", "U", "r", "l", "\"", " ", ":", " ", "\"", "h", "t", "t", "p", "s", ":", "/", "/", "c", "d", "n", ".", "e", "x", "a", "m", "p", "l", "e", "/", "v", ".", "m", "p", "4", "\"">>,
      <<"\"", "m", "a", "s", "t", "e", "r", "U", "r", "l", "\"", ":", "\"", "\"">>,
      <<"\"", "m", "a", "s", "t", "e", "r", "U", "r", "l", "\"", ":", "\"", "h", "t", "t", "p", ":", "\\", "u", "0", "0", "\"">>,
      <<"\"", "m", "a", "s", "t", "e", "r", "U", "r", "l", "\"", ":", "\"", "h", "t", "t", "p", ":">>,
      <<"\"", "b", "a", "c", "k", "u", "p", "U", "r", "l", "s", "\"", ":", "[", "\"", "h", "t", "t", "p", ":", "\\", "/", "\\", "/", "b", "\"", "]">>,
      <<"\"", "b", "a", "c", "k", "u", "p", "U", "r", "l", "s", "\"", ":", "[", "]">>,
      <<"\"", "t", "i", "t", "l", "e", "\"", ":", "\"", "M", "y", " ", "T", "r", "i", "p", "\"">>,
      <<"\"", "t", "i", "t", "l", "e", "\"", ":", "\"", " ", "a", "/", "b", "<", "c", ">", "\\", "n", "\"">>,
      <<"\"", "t", "i", "t", "l", "e", "\"", ":", "\"", "\"">>,
      <<"\"", "t", "i", "t", "l", "e", "\"", ":", "\"">> \o Repeat("a", MaxNameLen + 1) \o QUOTE,
      <<"<", "p", ">">> }

Pages == Concats(PageParts, MaxPageParts)

XHS_SHORT == <<"h", "t", "t", "p", ":", "/", "/", "x", "h", "s", "l", "i", "n", "k", ".", "c", "o", "m", "/", "a">>
XHS_PAGE == <<"h", "t", "t", "p", "s", ":", "/", "/", "w", "w", "w", ".", "x", "i", "a", "o", "h", "o", "n", "g", "s", "h", "u", ".", "c", "o", "m", "/", "e", "x", "p", "l", "o", "r", "e", "/", "1">>

\* what the network answers to a redirect resolution or to a page fetch
Redirects == {Returned(XHS_PAGE), Raised("UpstreamError")}
Fetches == {Returned(html) : html \in Pages} \cup {Raised("UpstreamError")}

\* no cookie source configured
NoCookies == [cookies_file |-> None, cookies_from_browser |-> None]

\* the Instagram downloader's own state, outside an Instagram call
IgIdle == cookies = NoCookies /\ attempts = <<>> /\ igpc = "none"

XhsInit ==
    /\ locator = "xhs"
    /\ IgIdle
    /\ post \in {XHS_SHORT, XHS_PAGE}
    /\ upstream \in [redirect : Redirects, fetched : Fetches]
    /\ located = NotCalled
    /\ net = <<>>

XhsGetVideoInfo ==
    /\ locator = "xhs"
    /\ located = NotCalled
    /\ located' = xhs_get_video_info(post, upstream.redirect, upstream.fetched)
    /\ net' = xhs_requests(post, upstream.redirect)
    /\ UNCHANGED <<locator, post, upstream, cookies, attempts, igpc>>


-----------------------------------------------------------------------------
(* WeiboDownloader.extract_status_id and WeiboDownloader.get_video_info *)

Digits == {"0", "1", "2", "3", "4", "5", "6", "7", "8", "9"}

\* \d* from position i: the first position at or after i that holds no digit
DigitsEnd(s, i) == SkipWhile(s, i, Digits)

\* lead(\d{least,}) matched at position i: the capture, or None
DigitsAfter(s, i, lead, least) ==
    IF ~StartsAt(s, i, lead) THEN None
    ELSE LET first == i + Len(lead)
             end == DigitsEnd(s, first)
         IN IF end - first >= least THEN SubSeq(s, first, end - 1) ELSE None

WEIBO_COM_SLASH == <<"w", "e", "i", "b", "o", ".", "c", "o", "m", "/">>
WEIBO_CN_STATUS == <<"w", "e", "i", "b", "o", ".", "c", "n", "/", "s", "t", "a", "t", "u", "s", "/">>

\* weibo\.com/\d+/(\d+) matched at position i: the capture, or None
UserStatusAt(s, i) ==
    LET user == DigitsAfter(s, i, WEIBO_COM_SLASH, 1)
    IN IF user = None THEN None
       ELSE DigitsAfter(s, i + Len(WEIBO_COM_SLASH) + Len(user), <<"/">>, 1)

\* which of the three patterns of extract_status_id is tried at a position
PatternAt(s, i, pattern) ==
    CASE pattern = 1 -> UserStatusAt(s, i)
      [] pattern = 2 -> DigitsAfter(s, i, WEIBO_CN_STATUS, 1)
      [] pattern = 3 -> DigitsAfter(s, i, <<"/">>, 16)

\* re.search(pattern, s): group(1) of the leftmost match, or None
SearchPattern(s, pattern) ==
    LET matches == {i \in 1..Len(s) : PatternAt(s, i, pattern) # None}
    IN IF matches = {} THEN None
       ELSE PatternAt(s, Leftmost(matches), pattern)

\* the patterns tried in another order: the last resort first
extract_status_id_last_resort_first(u) ==
    LET first == SearchPattern(u, 1)
        second == SearchPattern(u, 2)
        third == SearchPattern(u, 3)
    IN IF third # None THEN Returned(third)
       ELSE IF first # None THEN Returned(first)
       ELSE IF second # None THEN Returned(second)
       ELSE Raised("NoStatusId")

extract_status_id(u) ==
    LET first == SearchPattern(u, 1)
        second == SearchPattern(u, 2)
        third == SearchPattern(u, 3)
    IN IF first # None THEN Returned(first)
       ELSE IF second # None THEN Returned(second)
       ELSE IF third # None THEN Returned(third)
       ELSE Raised("NoStatusId")

STATUSES_SHOW == <<"h", "t", "t", "p", "s", ":", "/", "/", "m", ".", "w", "e", "i", "b", "o", ".", "c", "n", "/", "s", "t", "a", "t", "u", "s", "e", "s", "/", "s", "h", "o", "w", "?", "i", "d", "=">>
TYPE_VIDEO == <<"v", "i", "d", "e", "o">>
WEIBO_PREFIX == <<"w", "e", "i", "b", "o", "_">>
DEFAULT_SCREEN_NAME == <<"w", "e", "i", "b", "o">>

\* the title of a status: its text without tags, sanitized, or weibo_<screen name>
weibo_title(status) ==
    LET text == StripTags(status.text)
        user_name == IF status.screen_name = None THEN DEFAULT_SCREEN_NAME
                     ELSE status.screen_name
    IN IF Truthy(text) THEN sanitize_filename(text) ELSE WEIBO_PREFIX \o user_name

\* a or b or c
FirstTruthy(choices) ==
    IF \E i \in 1..Len(choices) : Truthy(choices[i])
    THEN choices[CHOOSE i \in 1..Len(choices) :
                    Truthy(choices[i]) /\ \A j \in 1..(i - 1) : ~Truthy(choices[j])]
    ELSE choices[Len(choices)]

\* lines 306-316 without the final `if not video_url: raise`
weibo_video_url_unchecked(data) ==
    LET video_url == FirstTruthy(<<data.mp4_720p_mp4, data.mp4_hd_mp4, data.mp4_ld_mp4>>)
    IN Returned(IF Truthy(video_url) THEN video_url
                ELSE FirstTruthy(<<data.stream_url_hd, data.stream_url>>))

\* lines 306-316: the choice of the media URL among the five fields
weibo_video_url(data) ==
    LET video_url == FirstTruthy(<<data.mp4_720p_mp4, data.mp4_hd_mp4, data.mp4_ld_mp4>>)
        fallback == IF Truthy(video_url) THEN video_url
                    ELSE FirstTruthy(<<data.stream_url_hd, data.stream_url>>)
    IN IF Truthy(fallback) THEN Returned(fallback) ELSE Raised("NoVideoFound")

weibo_requests(u) ==
    LET status_id == extract_status_id(u)
    IN IF status_id.ok THEN <<Request("get", STATUSES_SHOW \o status_id.val)>> ELSE <<>>

\* the type of the post tested before the success flag of the API
weibo_get_video_info_type_first(u, response) ==
    LET status_id == extract_status_id(u)
    IN IF ~status_id.ok THEN NotLocated(status_id.err)
       ELSE IF ~response.http_ok THEN NotLocated("UpstreamError")
       ELSE IF response.type # TYPE_VIDEO THEN NotLocated("NotAVideo")
       ELSE IF response.ok # 1 THEN NotLocated("ApiError")
       ELSE LET video_url == weibo_video_url(response)
            IN IF ~video_url.ok THEN NotLocated(video_url.err)
               ELSE Located(video_url.val, weibo_title(response))

weibo_get_video_info(u, response) ==
    LET status_id == extract_status_id(u)
    IN IF ~status_id.ok THEN NotLocated(status_id.err)
       ELSE IF ~response.http_ok THEN NotLocated("UpstreamError")
       ELSE IF response.ok # 1 THEN NotLocated("ApiError")
       ELSE IF response.type # TYPE_VIDEO THEN NotLocated("NotAVideo")
       ELSE LET video_url == weibo_video_url(response)
            IN IF ~video_url.ok THEN NotLocated(video_url.err)
               ELSE Located(video_url.val, weibo_title(response))

WEIBO_POST == <<"h", "t", "t", "p", "s", ":", "/", "/", "w", "e", "i", "b", "o", ".", "c", "o", "m", "/", "1", "2", "3", "4", "5", "6", "/", "4", "5", "6", "7", "8", "9", "0", "1", "2", "3", "4", "5", "6", "7", "8", "9">>
WEIBO_MOBILE_POST == <<"h", "t", "t", "p", "s", ":", "/", "/", "m", ".", "w", "e", "i", "b", "o", ".", "c", "n", "/", "s", "t", "a", "t", "u", "s", "/", "4", "5", "6", "7", "8", "9", "0", "1", "2", "3", "4", "5", "6", "7", "8", "9">>
WEIBO_HOME == <<"h", "t", "t", "p", "s", ":", "/", "/", "w", "e", "i", "b", "o", ".", "c", "o", "m", "/", "t", "v">>

\* the answers of the status API: the HTTP outcome, the ok flag, page_info.type,
\* the five URL fields, the text and the author's screen name
ApiResponses ==
    [ http_ok : BOOLEAN,
      ok : {0, 1},
      type : {TYPE_VIDEO, <<"a", "r", "t", "i", "c", "l", "e">>, None},
      mp4_720p_mp4 : {None, <<>>, <<"h", "t", "t", "p", ":", "/", "/", "v", "/", "7", "2", "0">>},
      mp4_hd_mp4 : {None, <<"h", "t", "t", "p", ":", "/", "/", "v", "/", "h", "d">>},
      mp4_ld_mp4 : {<<>>, <<"h", "t", "t", "p", ":", "/", "/", "v", "/", "l", "d">>},
      stream_url_hd : {None, <<"h", "t", "t", "p", ":", "/", "/", "s", "/", "h", "d">>},
      stream_url : {None, <<"h", "t", "t", "p", ":", "/", "/", "s", "/", "s", "d">>},
      text : {<<>>, <<"<", "a", ">">>, <<"l", "o", "o", "k", " ", "<", "b", ">", "h", "e", "r", "e", "<", "/", "b", ">", ":", " ", "a", "/", "b">>, Repeat("a", MaxNameLen + 1)},
      screen_name : {None, <<"b", "o", "b">>, <<"a", "/", "b">>, Repeat("b", MaxNameLen)} ]

WeiboInit ==
    /\ locator = "weibo"
    /\ IgIdle
    /\ post \in {WEIBO_POST, WEIBO_HOME}
    /\ upstream \in ApiResponses
    /\ located = NotCalled
    /\ net = <<>>

WeiboGetVideoInfo ==
    /\ locator = "weibo"
    /\ located = NotCalled
    /\ located' = weibo_get_video_info(post, upstream)
    /\ net' = weibo_requests(post)
    /\ UNCHANGED <<locator, post, upstream, cookies, attempts, igpc>>


-----------------------------------------------------------------------------
(* InstagramDownloader: _build_ydl_opts, _parse_video_info, get_video_info *)

\* a key that is present with the value None (json null)
Null == <<"null">>

\* `if value:` on a text, an absent key or a null
Present(v) == Truthy(v) /\ v # Null

\* str(value) in an f-string
Str(v) == IF v = Null THEN <<"N", "o", "n", "e">> ELSE v

CHROME == <<"c", "h", "r", "o", "m", "e">>

\* the credential options of one extraction: cookiefile and cookiesfrombrowser
_build_ydl_opts(use_cookies) ==
    IF ~use_cookies THEN [cookiefile |-> None, cookiesfrombrowser |-> None]
    ELSE IF Truthy(cookies.cookies_file)
    THEN [cookiefile |-> cookies.cookies_file, cookiesfrombrowser |-> None]
    ELSE IF Truthy(cookies.cookies_from_browser)
    THEN [cookiefile |-> None, cookiesfrombrowser |-> cookies.cookies_from_browser]
    ELSE [cookiefile |-> None, cookiesfrombrowser |-> CHROME]

MP4 == <<"m", "p", "4">>
CODEC_NONE == <<"n", "o", "n", "e">>
INSTAGRAM_PREFIX == <<"i", "n", "s", "t", "a", "g", "r", "a", "m", "_">>

\* whether a format passes the test of line 382
Progressive(fmt) == fmt.ext = MP4 /\ fmt.acodec # CODEC_NONE /\ fmt.vcodec # CODEC_NONE

\* the loop with the codec tests left out: the url of the first MP4 format
progressive_url_any_codec(formats) ==
    IF \E i \in 1..Len(formats) : formats[i].ext = MP4
    THEN formats[CHOOSE i \in 1..Len(formats) :
                    formats[i].ext = MP4 /\ \A j \in 1..(i - 1) : formats[j].ext # MP4].url
    ELSE None

\* lines 381-384: the url of the first format that passes the test, None without one
progressive_url(formats) ==
    IF \E i \in 1..Len(formats) : Progressive(formats[i])
    THEN formats[CHOOSE i \in 1..Len(formats) :
                    Progressive(formats[i]) /\ \A j \in 1..(i - 1) : ~Progressive(formats[j])].url
    ELSE None

\* lines 393-398: the sanitized description, or instagram_<channel, else id, else video>
instagram_title(info) ==
    IF Present(info.description) THEN sanitize_filename(info.description)
    ELSE INSTAGRAM_PREFIX \o Str(IF info.channel # None THEN info.channel
                                 ELSE IF info.id # None THEN info.id
                                 ELSE VIDEO)

_parse_video_info(info) ==
    IF info.empty THEN NotLocated("NoInfo")
    ELSE LET video_url == progressive_url(info.formats)
             chosen == IF Present(video_url) THEN video_url ELSE info.url
         IN IF ~Present(chosen) THEN NotLocated("NoVideoFound")
            ELSE Located(chosen, instagram_title(info))

\* str(e) of the exceptions of an extraction or of _parse_video_info
Message(e) ==
    CASE e = "RateLimited" -> <<"E", "R", "R", "O", "R", ":", " ", "[", "I", "n", "s", "t", "a", "g", "r", "a", "m", "]", " ", "R", "a", "t", "e", "-", "L", "i", "m", "i", "t", " ", "r", "e", "a", "c", "h", "e", "d">>
      [] e = "LoginRequired" -> <<"L", "o", "g", "i", "n", " ", "R", "e", "q", "u", "i", "r", "e", "d">>
      [] e = "Unavailable" -> <<"R", "e", "q", "u", "e", "s", "t", "e", "d", " ", "c", "o", "n", "t", "e", "n", "t", " ", "i", "s", " ", "n", "o", "t", " ", "a", "v", "a", "i", "l", "a", "b", "l", "e">>
      [] e = "TooManyRequests" -> <<"H", "T", "T", "P", " ", "E", "r", "r", "o", "r", " ", "4", "2", "9", ":", " ", "T", "o", "o", " ", "M", "a", "n", "y", " ", "R", "e", "q", "u", "e", "s", "t", "s">>
      [] e = "NetworkError" -> <<"H", "T", "T", "P", " ", "E", "r", "r", "o", "r", " ", "4", "0", "4", ":", " ", "N", "o", "t", " ", "F", "o", "u", "n", "d">>
      [] e = "NoInfo" -> <<"C", "o", "u", "l", "d", " ", "n", "o", "t", " ", "e", "x", "t", "r", "a", "c", "t", " ", "v", "i", "d", "e", "o", " ", "i", "n", "f", "o", "r", "m", "a", "t", "i", "o", "n", " ", "f", "r", "o", "m", " ", "I", "n", "s", "t", "a", "g", "r", "a", "m", ".">>
      [] e = "NoVideoFound" -> <<"C", "o", "u", "l", "d", " ", "n", "o", "t", " ", "f", "i", "n", "d", " ", "v", "i", "d", "e", "o", " ", "U", "R", "L", " ", "i", "n", " ", "I", "n", "s", "t", "a", "g", "r", "a", "m", " ", "r", "e", "s", "p", "o", "n", "s", "e", ".">>

RATE_LIMIT == <<"r", "a", "t", "e", "-", "l", "i", "m", "i", "t">>
LOGIN_REQUIRED == <<"l", "o", "g", "i", "n", " ", "r", "e", "q", "u", "i", "r", "e", "d">>
NOT_AVAILABLE == <<"r", "e", "q", "u", "e", "s", "t", "e", "d", " ", "c", "o", "n", "t", "e", "n", "t", " ", "i", "s", " ", "n", "o", "t", " ", "a", "v", "a", "i", "l", "a", "b", "l", "e">>

\* line 410 changed to retry on every exception
should_retry_always(e) == TRUE

\* line 410: whether the exception's message asks for the retry with cookies
should_retry(e) ==
    LET error_msg == Lower(Message(e))
    IN \/ Contains(error_msg, RATE_LIMIT)
       \/ Contains(error_msg, LOGIN_REQUIRED)
       \/ Contains(error_msg, NOT_AVAILABLE)

\* what one _extract_info call plus _parse_video_info comes to
Extracted(outcome) == IF outcome.ok THEN _parse_video_info(outcome.info) ELSE NotLocated(outcome.err)

\* how many formats an info object lists
MaxFormats == 2

Formats ==
    { [ext |-> MP4, acodec |-> <<"a", "a", "c">>, vcodec |-> <<"h", "2", "6", "4">>, url |-> <<"h", "t", "t", "p", ":", "/", "/", "f", "/", "1">>],
      [ext |-> MP4, acodec |-> <<"a", "a", "c">>, vcodec |-> <<"h", "2", "6", "4">>, url |-> <<"h", "t", "t", "p", ":", "/", "/", "f", "/", "2">>],
      [ext |-> MP4, acodec |-> <<"a", "a", "c">>, vcodec |-> <<"h", "2", "6", "4">>, url |-> None],
      [ext |-> MP4, acodec |-> CODEC_NONE, vcodec |-> <<"h", "2", "6", "4">>, url |-> <<"h", "t", "t", "p", ":", "/", "/", "f", "/", "v">>],
      [ext |-> MP4, acodec |-> None, vcodec |-> None, url |-> <<"h", "t", "t", "p", ":", "/", "/", "f", "/", "n">>],
      [ext |-> <<"w", "e", "b", "m">>, acodec |-> <<"a", "a", "c">>, vcodec |-> <<"h", "2", "6", "4">>, url |-> <<"h", "t", "t", "p", ":", "/", "/", "f", "/", "w">>] }

\* the info objects of the extractor; empty marks None and {}, which `not info` rejects
Infos ==
    [ empty : {FALSE},
      formats : SeqsUpTo(Formats, MaxFormats),
      url : {<<>>, <<"h", "t", "t", "p", ":", "/", "/", "f", "/", "0">>},
      description : {<<>>, <<"a", " ", "d", "a", "y", ":", " ", "o", "u", "t", "/", "i", "n">>},
      channel : {None, Null, <<"a", "/", "b">>, Repeat("c", MaxNameLen)},
      id : {None, <<"C", "x", "1">>} ]

EmptyInfo ==
    [empty |-> TRUE, formats |-> <<>>, url |-> None, description |-> None,
     channel |-> None, id |-> None]

ExtractionErrors ==
    {"RateLimited", "LoginRequired", "Unavailable", "TooManyRequests", "NetworkError"}

\* what _extract_info comes to: an info object, no info, or an exception
Extractions ==
    {[ok |-> TRUE, info |-> info, err |-> "none"] : info \in Infos \cup {EmptyInfo}}
        \cup {[ok |-> FALSE, info |-> EmptyInfo, err |-> e] : e \in ExtractionErrors}

\* no extraction made yet
NoAnswer == [ok |-> FALSE, info |-> EmptyInfo, err |-> "not called"]

INSTAGRAM_POST == <<"h", "t", "t", "p", "s", ":", "/", "/", "w", "w", "w", ".", "i", "n", "s", "t", "a", "g", "r", "a", "m", ".", "c", "o", "m", "/", "r", "e", "e", "l", "/", "C", "x", "1", "/">>

IgInit ==
    /\ locator = "instagram"
    /\ post = INSTAGRAM_POST
    /\ cookies \in [cookies_file : {None, <<"c", ".", "t", "x", "t">>},
                    cookies_from_browser : {None, <<"f", "i", "r", "e", "f", "o", "x">>}]
    /\ upstream = NoAnswer
    /\ located = NotCalled
    /\ net = <<>>
    /\ attempts = <<>>
    /\ igpc = "first"

\* lines 405-415 up to the end of the first attempt: it returns, raises or goes
\* on to retry; the extraction comes to one of `outcomes`
FirstAttempt(outcomes) ==
    /\ igpc = "first"
    /\ \E outcome \in outcomes :
        LET result == Extracted(outcome)
        IN /\ upstream' = outcome
           /\ attempts' = Append(attempts, [opts |-> _build_ydl_opts(FALSE), err |-> result.err])
           /\ IF ~result.ok /\ should_retry(result.err)
              THEN igpc' = "retry" /\ UNCHANGED located
              ELSE igpc' = "done" /\ located' = result
    /\ UNCHANGED <<locator, post, net, cookies>>

\* lines 411-414: the second attempt, with cookies; whatever it raises propagates
Retry(outcomes) ==
    /\ igpc = "retry"
    /\ \E outcome \in outcomes :
        LET result == Extracted(outcome)
        IN /\ upstream' = outcome
           /\ attempts' = Append(attempts, [opts |-> _build_ydl_opts(TRUE), err |-> result.err])
           /\ igpc' = "done"
           /\ located' = result
    /\ UNCHANGED <<locator, post, net, cookies>>

IgFirstAttempt == FirstAttempt(Extractions)
IgRetry == Retry(Extractions)


-----------------------------------------------------------------------------
(* get_unique_path *)

DigitChars == <<"0", "1", "2", "3", "4", "5", "6", "7", "8", "9">>

\* str(n) for a natural number n
RECURSIVE Decimal(_)
Decimal(n) ==
    IF n < 10 THEN <<DigitChars[n + 1]>>
    ELSE Decimal(n \div 10) \o <<DigitChars[(n % 10) + 1]>>

\* the last position of s that holds c, 0 when there is none
LastOf(s, c) ==
    LET at == {k \in 1..Len(s) : s[k] = c}
    IN IF at = {} THEN 0 ELSE CHOOSE k \in at : \A m \in at : k >= m

\* os.path.splitext: the extension starts at the last dot of the last path
\* component, unless only dots come before it in that component
splitext(p) ==
    LET sep == LastOf(p, "/")
        dot == LastOf(p, ".")
    IN IF dot > sep /\ \E k \in (sep + 1)..(dot - 1) : p[k] # "."
       THEN [base |-> SubSeq(p, 1, dot - 1), ext |-> SubSeq(p, dot, Len(p))]
       ELSE [base |-> p, ext |-> <<>>]

\* f"{base}_{counter}{ext}" written without the counter
numbered_without_counter(p, n) == splitext(p).base \o <<"_">> \o splitext(p).ext

\* f"{base}_{counter}{ext}"
numbered(p, n) == splitext(p).base \o <<"_">> \o Decimal(n) \o splitext(p).ext

\* how many numbered variants of a requested path may exist at the start
MaxFiles == 2

\* how many times the same path is requested
MaxRequests == 3

RequestedPaths == {<<"d", "/", "a", ".", "m", "p", "4">>, <<"d", "/", ".", "m", "p", "4">>, <<"d", ".", "x", "/", "a", "_", "1">>}

\* the files that may exist at the start: the requested path, its numbered
\* variants and two unrelated files
InitialFiles(p) ==
    {p} \cup {numbered(p, k) : k \in 1..MaxFiles} \cup {<<"d", "/", "a", "_", "1", "_", "1", ".", "m", "p", "4">>, <<"d", "/", "b", ".", "m", "p", "4">>}

PathIdle ==
    /\ files = {} /\ requested = <<>> /\ output_path = <<>>
    /\ counter = 0 /\ gpc = "none" /\ results = <<>>

PathInit ==
    /\ requested \in RequestedPaths
    /\ files \in SUBSET InitialFiles(requested)
    /\ output_path = <<>>
    /\ counter = 0
    /\ gpc = "idle"
    /\ results = <<>>

\* lines 433-437: the first test of the path, then the start of the loop
UniqueCall ==
    /\ gpc = "idle"
    /\ Len(results) < MaxRequests
    /\ output_path' = requested
    /\ IF requested \notin files
       THEN /\ gpc' = "returned"
            /\ results' = Append(results, requested)
            /\ UNCHANGED counter
       ELSE /\ gpc' = "loop"
            /\ counter' = 1
            /\ UNCHANGED results
    /\ UNCHANGED <<files, requested>>

\* lines 438-441: one test of the loop condition, then its body or the return
UniqueLoop ==
    /\ gpc = "loop"
    /\ IF output_path \in files
       THEN /\ output_path' = numbered(requested, counter)
            /\ counter' = counter + 1
            /\ UNCHANGED <<gpc, results>>
       ELSE /\ gpc' = "returned"
            /\ results' = Append(results, output_path)
            /\ UNCHANGED <<output_path, counter>>
    /\ UNCHANGED <<files, requested>>

\* download_video, line 179: the returned path is opened for writing
CreateFile ==
    /\ gpc = "returned"
    /\ files' = files \cup {output_path}
    /\ gpc' = "idle"
    /\ UNCHANGED <<requested, output_path, counter, results>>


-----------------------------------------------------------------------------
(* read_qrcode: the decoding cascade *)

\* one decoding attempt: its stage (1..7) and its scale factor (1 when unscaled)
Attempt(stage, scale) == [stage |-> stage, scale |-> scale]

\* the attempts in the order of the source text; stage 3 is conditional
Cascade ==
    << Attempt(1, 1), Attempt(2, 1), Attempt(3, 3),
       Attempt(4, 2), Attempt(4, 3), Attempt(4, 4),
       Attempt(5, 2), Attempt(5, 3),
       Attempt(6, 2),
       Attempt(7, 2), Attempt(7, 3) >>

AllAttempts == {Cascade[i] : i \in 1..Len(Cascade)}

\* the text an attempt decodes: each attempt may read a different payload
Payload(attempt) == <<DigitChars[attempt.stage + 1], "@", DigitChars[attempt.scale + 1]>>

\* how many of the attempts can decode a given image
MaxDecodable == 2

\* an image: whether the file exists, whether cv2.imread can load it, whether
\* the QR detector locates the four corners, and which attempts decode it
Images ==
    [ exists : BOOLEAN,
      readable : BOOLEAN,
      corners : BOOLEAN,
      decodable : {d \in SUBSET AllAttempts : Cardinality(d) <= MaxDecodable} ]

NoImage == [exists |-> FALSE, readable |-> FALSE, corners |-> FALSE, decodable |-> {}]

QrIdle ==
    /\ image = NoImage /\ qpc = "none" /\ scales = <<>>
    /\ tried = <<>> /\ decoded = NoResult

QrInit ==
    /\ image \in Images
    /\ qpc = "original"
    /\ scales = <<>>
    /\ tried = <<>>
    /\ decoded = NoResult

\* an attempt whose `return qr_data` is missing: the payload is kept and the
\* cascade goes on
TryAttemptWithoutReturn(attempt, otherwise, left) ==
    /\ tried' = Append(tried, attempt)
    /\ qpc' = otherwise
    /\ scales' = left
    /\ IF attempt \in image.decodable
       THEN decoded' = Returned(Payload(attempt))
       ELSE UNCHANGED decoded

\* one attempt is made: it returns its payload, or control goes to `otherwise`
\* with the scale factors `left` still to try
TryAttempt(attempt, otherwise, left) ==
    /\ tried' = Append(tried, attempt)
    /\ IF attempt \in image.decodable
       THEN /\ decoded' = Returned(Payload(attempt))
            /\ qpc' = "done"
            /\ scales' = <<>>
       ELSE /\ qpc' = otherwise
            /\ scales' = left
            /\ UNCHANGED decoded

\* a loop over scale factors tries its next factor; after the last one control
\* goes to `after`, whose own scale factors are `next`
TryScale(stage, here, after, next) ==
    IF Len(scales) > 1
    THEN TryAttempt(Attempt(stage, Head(scales)), here, Tail(scales))
    ELSE TryAttempt(Attempt(stage, Head(scales)), after, next)

\* lines 26-35: the existence test, then pyzbar on the image as it is
ReadOriginal ==
    /\ qpc = "original"
    /\ IF ~image.exists
       THEN /\ decoded' = Raised("ImageNotFound")
            /\ qpc' = "done"
            /\ UNCHANGED <<tried, scales>>
       ELSE TryAttempt(Attempt(1, 1), "imread", <<>>)
    /\ UNCHANGED image

\* lines 38-40: cv2.imread, which raises when it cannot load the image
ImRead ==
    /\ qpc = "imread"
    /\ IF image.readable
       THEN qpc' = "detect" /\ UNCHANGED decoded
       ELSE qpc' = "done" /\ decoded' = Raised("CouldNotRead")
    /\ UNCHANGED <<image, scales, tried>>

\* lines 43-48: the QR detector decodes, or goes on to the corner crop when it
\* located the corners, to the bottom region otherwise
Detect ==
    /\ qpc = "detect"
    /\ IF image.corners
       THEN TryAttempt(Attempt(2, 1), "corners", <<>>)
       ELSE TryAttempt(Attempt(2, 1), "bottom", <<2, 3, 4>>)
    /\ UNCHANGED image

\* lines 51-75: the located region, padded, cropped and scaled 3x
CropCorners ==
    /\ qpc = "corners"
    /\ TryAttempt(Attempt(3, 3), "bottom", <<2, 3, 4>>)
    /\ UNCHANGED image

\* lines 78-89: the bottom 40% of the image at the scale factors 2, 3, 4
ScanBottom ==
    /\ qpc = "bottom"
    /\ TryScale(4, "bottom", "clahe", <<2, 3>>)
    /\ UNCHANGED image

\* lines 92-104: grayscale and CLAHE at the scale factors 2, 3
Enhance ==
    /\ qpc = "clahe"
    /\ TryScale(5, "clahe", "otsu", <<>>)
    /\ UNCHANGED image

\* lines 107-113: Otsu thresholding at the scale factor 2
Threshold ==
    /\ qpc = "otsu"
    /\ TryAttempt(Attempt(6, 2), "whole", <<2, 3>>)
    /\ UNCHANGED image

\* lines 116-123: the whole image at the scale factors 2, 3
ScaleWhole ==
    /\ qpc = "whole"
    /\ TryScale(7, "whole", "raise", <<>>)
    /\ UNCHANGED image

\* line 125: no attempt decoded anything
GiveUp ==
    /\ qpc = "raise"
    /\ decoded' = Raised("NoQrFound")
    /\ qpc' = "done"
    /\ UNCHANGED <<image, scales, tried>>


-----------------------------------------------------------------------------
(* XHSDownloader.get_video_url (legacy) *)

ORIGIN_VIDEO_HOST == <<"h", "t", "t", "p", "s", ":", "/", "/", "s", "n", "s", "-", "v", "i", "d", "e", "o", "-", "b", "d", ".", "x", "h", "s", "c", "d", "n", ".", "c", "o", "m", "/">>

\* lines 99-106: the media URL of one note of the embedded state, None without
\* one; streams is the h264 list (None when absent, so that [{}] is the default)
note_media_url(note) ==
    LET master == IF note.streams = None THEN None ELSE Head(note.streams)
    IN IF Truthy(master) THEN master
       ELSE IF Truthy(note.url) THEN note.url
       ELSE IF Truthy(note.originVideoKey) THEN ORIGIN_VIDEO_HOST \o note.originVideoKey
       ELSE None

\* lines 91-109: the first note of the embedded state that yields a media URL
\* comes back with its sanitized title; an empty h264 list raises IndexError
RECURSIVE state_video(_)
state_video(notes) ==
    IF notes = <<>> THEN NotLocated("none")
    ELSE LET note == Head(notes)
         IN IF note.streams = <<>> THEN NotLocated("IndexError")
            ELSE IF note_media_url(note) # None
            THEN Located(note_media_url(note),
                         legacy_sanitize_filename(IF note.title = None THEN XHS_VIDEO
                                                  ELSE note.title))
            ELSE state_video(Tail(notes))

\* lines 113-136: the pattern search over the HTML
legacy_parse(html) ==
    LET master == SearchField(html, KEY_MASTER_URL, QUOTE, HTTP)
        backup == SearchField(html, KEY_BACKUP_URLS, <<"[", "\"">>, HTTP)
        match == IF master # None THEN master ELSE backup
        title_match == SearchField(html, KEY_TITLE, QUOTE, <<>>)
    IN IF match = None THEN NotLocated("NoVideoFound")
       ELSE LET video_url == unicode_escape(match)
            IN IF ~video_url.ok THEN NotLocated(video_url.err)
               ELSE Located(video_url.val,
                            IF title_match # None THEN legacy_sanitize_filename(title_match)
                            ELSE XHS_VIDEO)

\* get_video_url on the answer to the page fetch: the embedded state first
\* (kind "parsed" when the script tag is found and is valid JSON), then the patterns
get_video_url(fetched) ==
    IF ~fetched.ok THEN NotLocated("FetchError")
    ELSE LET structured == IF fetched.val.state.kind = "parsed"
                           THEN state_video(fetched.val.state.notes)
                           ELSE NotLocated("none")
         IN IF structured.ok \/ structured.err = "IndexError" THEN structured
            ELSE legacy_parse(fetched.val.html)


-----------------------------------------------------------------------------
(* download_from_screenshot and the downloaders' download methods *)

XHS_LONG_PAGE == <<"h", "t", "t", "p", "s", ":", "/", "/", "w", "w", "w", ".", "x", "i", "a", "o", "h", "o", "n", "g", "s", "h", "u", ".", "c", "o", "m", "/", "d", "i", "s", "c", "o", "v", "e", "r", "y", "/", "i", "t", "e", "m", "/", "6", "4", "f", "0", "a", "1", "b", "2", "c", "3", "d", "4", "e", "5", "f", "6">>
XHS_SHORT_UPPER == <<"H", "T", "T", "P", ":", "/", "/", "X", "H", "S", "L", "I", "N", "K", ".", "C", "O", "M", "/", "A">>
XHS_SHORT_TRACKED == <<"h", "t", "t", "p", ":", "/", "/", "x", "h", "s", "l", "i", "n", "k", ".", "c", "o", "m", "/", "a", "/", "b", "?", "s", "h", "a", "r", "e", "_", "f", "r", "o", "m", "=", "a", "p", "p", "&", "t", "y", "p", "e", "=", "v", "i", "d", "e", "o", "&", "i", "d", "=", "6", "4", "f", "0", "a", "1", "b", "2">>
OTHER_SITE == <<"h", "t", "t", "p", "s", ":", "/", "/", "e", "x", "a", "m", "p", "l", "e", ".", "o", "r", "g", "/", "v", "/", "1">>

\* the texts a QR code may carry
Payloads ==
    { XHS_SHORT, XHS_SHORT_UPPER, XHS_SHORT_TRACKED, XHS_PAGE, XHS_LONG_PAGE,
      WEIBO_POST, WEIBO_MOBILE_POST, INSTAGRAM_POST, OTHER_SITE }

\* what read_qrcode comes to: the payload, or one of its errors
QrOutcomes ==
    {Returned(p) : p \in Payloads}
        \cup {Raised("ImageNotFound"), Raised("CouldNotRead"), Raised("NoQrFound")}

\* pages put together from a masterUrl field, a backupUrls array and a title field
PART_MASTER_URL == <<"\"", "m", "a", "s", "t", "e", "r", "U", "r", "l", "\"", ":", "\"", "h", "t", "t", "p", "s", ":", "/", "/", "c", "d", "n", ".", "e", "x", "a", "m", "p", "l", "e", "/", "v", ".", "m", "p", "4", "\"">>
PART_BACKUP_URLS == <<"\"", "b", "a", "c", "k", "u", "p", "U", "r", "l", "s", "\"", ":", "[", "\"", "h", "t", "t", "p", "s", ":", "/", "/", "c", "d", "n", ".", "e", "x", "a", "m", "p", "l", "e", "/", "b", ".", "m", "p", "4", "\"", "]">>
PART_TITLE == <<"\"", "t", "i", "t", "l", "e", "\"", ":", "\"", "M", "y", " ", "T", "r", "i", "p", "\"">>
OrchPages == Concats({PART_MASTER_URL, PART_BACKUP_URLS, PART_TITLE}, MaxPageParts)

\* what the platforms answer during one run of the whole program
OrchFetches ==
    {Returned(html) : html \in PageParts \cup OrchPages} \cup {Raised("UpstreamError")}
OrchResponses ==
    { r \in ApiResponses :
        /\ r.mp4_720p_mp4 = None /\ r.mp4_hd_mp4 = None /\ r.mp4_ld_mp4 = <<>>
        /\ r.stream_url_hd = None
        /\ r.text \in {<<>>, <<"<", "a", ">">>}
        /\ r.screen_name \in {None, <<"b", "o", "b">>} }
OrchExtractions ==
    { e \in Extractions :
        e.ok /\ ~e.info.empty =>
            /\ Len(e.info.formats) <= 1
            /\ e.info.description = <<>>
            /\ e.info.channel \in {Null, <<"a", "/", "b">>}
            /\ e.info.id = None }

OUTPUT_DIR == <<"d">>
MP4_SUFFIX == <<".", "m", "p", "4">>

\* os.path.join(output_dir, f"{title}.mp4")
output_path_of(title) == OUTPUT_DIR \o <<"/">> \o title \o MP4_SUFFIX

\* the files that may stand in the output directory when the path is computed
MaxTaken == 2
TakenFiles(p) == SUBSET ({p} \cup {numbered(p, k) : k \in 1..(MaxTaken - 1)})

OrchInit ==
    /\ program \in {"current", "legacy"}
    /\ qr \in QrOutcomes
    /\ opc = "decode"
    /\ stages = <<>>
    /\ finished = NoResult

\* what follows a stage that ignores its failure
AfterStageIgnoringFailure(result, next) ==
    /\ opc' = next
    /\ UNCHANGED finished

\* an exception of a stage propagates out of download_from_screenshot; only a
\* stage that returns is followed by the next one
AfterStage(result, next) ==
    IF result.ok
    THEN /\ opc' = next
         /\ UNCHANGED finished
    ELSE /\ opc' = "done"
         /\ finished' = Raised(result.err)

\* line 451 (legacy line 186): qr_url = read_qrcode(screenshot_path)
ReadQrcode ==
    /\ opc = "decode"
    /\ stages' = Append(stages, "decode")
    /\ AfterStage(qr, IF program = "current" THEN "classify" ELSE "resolve")
    /\ UNCHANGED <<program, qr, clsVars, locVars, pathVars>>

\* line 454: platform = detect_platform(qr_url)
DetectPlatform ==
    /\ opc = "classify"
    /\ url' = qr.val
    /\ platform' = detect_platform(qr.val)
    /\ stages' = Append(stages, "classify")
    /\ AfterStage(platform', "dispatch")
    /\ UNCHANGED <<program, qr, locVars, pathVars>>

\* the downloader that lines 461-466 construct for a platform
downloader_of(p) ==
    IF p = TagWeibo THEN "weibo"
    ELSE IF p = TagInstagram THEN "instagram"
    ELSE "xhs"

\* lines 461-468 and the head of download (lines 246-250): the downloader is
\* constructed and its get_video_info is entered on the payload itself
Dispatch ==
    /\ opc = "dispatch"
    /\ locator' = downloader_of(platform.val)
    /\ post' = qr.val
    /\ located' = NotCalled
    /\ net' = <<>>
    /\ attempts' = <<>>
    /\ cookies' \in IF locator' = "instagram"
                    THEN {NoCookies, [cookies_file |-> None, cookies_from_browser |-> CHROME]}
                    ELSE {NoCookies}
    /\ igpc' = IF locator' = "instagram" THEN "first" ELSE "none"
    /\ upstream' \in CASE locator' = "xhs" -> [redirect : Redirects, fetched : OrchFetches]
                       [] locator' = "weibo" -> OrchResponses
                       [] OTHER -> {NoAnswer}
    /\ stages' = Append(stages, "locate")
    /\ opc' = "locate"
    /\ UNCHANGED <<program, qr, finished, clsVars, pathVars>>


\* lines 250, 331, 421: video_url, title = self.get_video_info(url)
LocateXhs ==
    /\ opc = "locate" /\ program = "current"
    /\ XhsGetVideoInfo
    /\ AfterStage(located', "path")
    /\ UNCHANGED <<program, qr, stages, clsVars, pathVars>>

LocateWeibo ==
    /\ opc = "locate" /\ program = "current"
    /\ WeiboGetVideoInfo
    /\ AfterStage(located', "path")
    /\ UNCHANGED <<program, qr, stages, clsVars, pathVars>>

LocateInstagram ==
    /\ opc = "locate" /\ program = "current"
    /\ FirstAttempt(OrchExtractions)
    /\ IF igpc' = "retry"
       THEN UNCHANGED <<opc, finished>>
       ELSE AfterStage(located', "path")
    /\ UNCHANGED <<program, qr, stages, clsVars, pathVars>>

LocateInstagramAgain ==
    /\ opc = "locate" /\ program = "current"
    /\ Retry(OrchExtractions)
    /\ AfterStage(located', "path")
    /\ UNCHANGED <<program, qr, stages, clsVars, pathVars>>

\* lines 253-254: the output path is joined and get_unique_path is entered
ComputePath ==
    /\ opc = "path" /\ program = "current"
    /\ requested' = output_path_of(located.title)
    /\ files' \in TakenFiles(requested')
    /\ output_path' = <<>>
    /\ counter' = 0
    /\ results' = <<>>
    /\ gpc' = "idle"
    /\ stages' = Append(stages, "path")
    /\ opc' = "unique"
    /\ UNCHANGED <<program, qr, finished, clsVars, locVars>>

\* get_unique_path within download: its first test
PathCall ==
    /\ opc = "unique"
    /\ UniqueCall
    /\ opc' = IF gpc' = "returned" THEN "transfer" ELSE "unique"
    /\ UNCHANGED <<program, qr, stages, finished, clsVars, locVars>>

\* the numbering loop (get_unique_path lines 438-441, legacy lines 209-212)
PathLoop ==
    /\ opc = "unique"
    /\ UniqueLoop
    /\ opc' = IF gpc' = "returned" THEN "transfer" ELSE "unique"
    /\ UNCHANGED <<program, qr, stages, finished, clsVars, locVars>>

\* download_video (lines 162-194, legacy 148-180): the request may be refused
\* before the file is opened, the stream may break after it, or all is written
Transfer ==
    /\ opc = "transfer"
    /\ stages' = Append(stages, "transfer")
    /\ \E answer \in {"refused", "broken", "complete"} :
        /\ files' = IF answer = "refused" THEN files ELSE files \cup {output_path}
        /\ finished' = IF answer = "complete" THEN Returned(output_path)
                       ELSE Raised("TransferError")
    /\ opc' = "done"
    /\ UNCHANGED <<program, qr, requested, output_path, counter, gpc, results, clsVars, locVars>>

-----------------------------------------------------------------------------
(* XHSDownloader.download_from_screenshot (legacy) *)

\* legacy line 189: payloads shorter than this are resolved as short links
SHORT_LINK_LEN == 50

\* the notes of the embedded state
MaxNotes == 2
Notes ==
    { [streams |-> None, url |-> None, originVideoKey |-> None, title |-> None],
      [streams |-> <<>>, url |-> <<"h", "t", "t", "p", ":", "/", "/", "v", "/", "u">>, originVideoKey |-> None, title |-> None],
      [streams |-> <<None>>, url |-> <<"h", "t", "t", "p", ":", "/", "/", "v", "/", "u">>, originVideoKey |-> None, title |-> <<"a", "/", "b">>],
      [streams |-> <<<<"h", "t", "t", "p", ":", "/", "/", "v", "/", "m">>>>, url |-> None, originVideoKey |-> None, title |-> <<"M", "y", " ", "T", "r", "i", "p">>],
      [streams |-> None, url |-> <<>>, originVideoKey |-> <<"k", "1">>, title |-> None] }

\* the embedded state of a page: absent, not valid JSON, or parsed
States ==
    {[kind |-> "absent", notes |-> <<>>], [kind |-> "invalid", notes |-> <<>>]}
        \cup {[kind |-> "parsed", notes |-> ns] : ns \in SeqsUpTo(Notes, MaxNotes)}

LegacyPages ==
    { <<"\"", "m", "a", "s", "t", "e", "r", "U", "r", "l", "\"", ":", "\"", "h", "t", "t", "p", ":", "\\", "u", "0", "0", "2", "F", "\\", "u", "0", "0", "2", "F", "v", "\\", "u", "0", "0", "2", "F", "h", "\"">>,
      <<"\"", "b", "a", "c", "k", "u", "p", "U", "r", "l", "s", "\"", ":", "[", "\"", "h", "t", "t", "p", ":", "/", "/", "v", "/", "b", "\"", "]", ",", "\"", "t", "i", "t", "l", "e", "\"", ":", "\"", " ", "a", "/", "b", " ", "\"">>,
      <<"<", "p", ">">>,
      PART_MASTER_URL \o PART_TITLE,
      PART_BACKUP_URLS \o PART_MASTER_URL }

LegacyFetches ==
    {Returned([state |-> s, html |-> h]) : s \in States, h \in LegacyPages}
        \cup {Raised("UpstreamError")}

\* legacy lines 189-192: the payload is resolved when it holds the short-link
\* domain or is short, and used as the page URL otherwise
LegacyResolve ==
    /\ opc = "resolve" /\ program = "legacy"
    /\ locator' = "legacy"
    /\ IF Contains(qr.val, XHSLINK_COM) \/ Len(qr.val) < SHORT_LINK_LEN
       THEN \E redirect \in Redirects :
               /\ net' = <<Request("resolve", qr.val)>>
               /\ post' = IF redirect.ok THEN redirect.val ELSE post
               /\ stages' = Append(stages, "resolve")
               /\ AfterStage(redirect, "locate")
       ELSE /\ post' = qr.val
            /\ opc' = "locate"
            /\ UNCHANGED <<net, stages, finished>>
    /\ UNCHANGED <<program, qr, upstream, located, cookies, attempts, igpc, clsVars, pathVars>>

\* legacy line 196: video_url, title = self.get_video_url(page_url)
LegacyLocate ==
    /\ opc = "locate" /\ program = "legacy"
    /\ \E fetched \in LegacyFetches :
        /\ upstream' = fetched
        /\ located' = get_video_url(fetched)
    /\ net' = Append(net, Request("get", post))
    /\ stages' = Append(stages, "locate")
    /\ AfterStage(located', "path")
    /\ UNCHANGED <<program, qr, locator, post, cookies, attempts, igpc, clsVars, pathVars>>

\* legacy lines 204-208: the output path is joined and the loop is entered
LegacyComputePath ==
    /\ opc = "path" /\ program = "legacy"
    /\ requested' = output_path_of(located.title)
    /\ files' \in TakenFiles(requested')
    /\ output_path' = requested'
    /\ counter' = 1
    /\ results' = <<>>
    /\ gpc' = "loop"
    /\ stages' = Append(stages, "path")
    /\ opc' = "unique"
    /\ UNCHANGED <<program, qr, finished, clsVars, locVars>>



-----------------------------------------------------------------------------
(* main: batch mode *)

\* line 552: delay = random.uniform(3, 6)
DELAY_MIN == 3
DELAY_MAX == 6

\* how many inputs a batch holds at most, and how long one call lasts at most
MaxInputs == 3
MaxDuration == 1

\* what download_from_screenshot comes to for one input: it returns the
\* platform of the item, or raises (the platform may be known by then or not)
ItemOutcomes ==
    [ok : BOOLEAN, platform : {TagXiaohongshu, TagWeibo, TagInstagram}]

BatchInit ==
    /\ inputs \in SeqsUpTo(ItemOutcomes, MaxInputs) \ {<<>>}
    /\ idx = 1
    /\ success = 0
    /\ failed = 0
    /\ bpc = "item"
    /\ runs = <<>>
    /\ delays = <<>>
    /\ now = 0
    /\ exit_status = -1

\* the sleep that followed every successful item but the last
needs_delay_any_platform(item_platform, i, n) == i < n

\* line 551: if platform == 'instagram' and i < len(args.input)
needs_delay(item_platform, i, n) == item_platform = TagInstagram /\ i < n

\* an exit status of 0 whatever the tally
exit_status_ignoring_failures(n_failed) == 0

\* line 561: sys.exit(0 if failed == 0 else 1)
exit_status_of(n_failed) == IF n_failed = 0 THEN 0 ELSE 1

\* lines 542-547: the loop takes the next input and enters download_from_screenshot,
\* or ends when no input is left
NextItem ==
    /\ bpc = "item"
    /\ IF idx <= Len(inputs)
       THEN /\ runs' = Append(runs, [index |-> idx, start |-> now, end |-> -1])
            /\ bpc' = "call"
       ELSE /\ bpc' = "summary"
            /\ UNCHANGED runs
    /\ UNCHANGED <<inputs, idx, success, failed, delays, now, exit_status>>

\* lines 546-557: the call returns or raises after some time; a return counts as a
\* success and may be followed by a delay, an exception counts as a failure
EndCall ==
    /\ bpc = "call"
    /\ \E duration \in 0..MaxDuration : now' = now + duration
    /\ runs' = [runs EXCEPT ![idx].end = now']
    /\ IF inputs[idx].ok
       THEN /\ success' = success + 1
            /\ UNCHANGED failed
            /\ IF needs_delay(inputs[idx].platform, idx, Len(inputs))
               THEN bpc' = "sleep" /\ UNCHANGED idx
               ELSE bpc' = "item" /\ idx' = idx + 1
       ELSE /\ failed' = failed + 1
            /\ UNCHANGED success
            /\ bpc' = "item" /\ idx' = idx + 1
    /\ UNCHANGED <<inputs, delays, exit_status>>

\* lines 552-554: time.sleep(delay) returns once the delay has passed
Sleep ==
    /\ bpc = "sleep"
    /\ \E delay \in DELAY_MIN..DELAY_MAX :
        /\ now' = now + delay
        /\ delays' = Append(delays, [after |-> idx, seconds |-> delay, from |-> now, to |-> now'])
    /\ bpc' = "item"
    /\ idx' = idx + 1
    /\ UNCHANGED <<inputs, success, failed, runs, exit_status>>

\* lines 559-561: the tally is printed and the process exits
Exit ==
    /\ bpc = "summary"
    /\ exit_status' = exit_status_of(failed)
    /\ bpc' = "exited"
    /\ UNCHANGED <<inputs, idx, success, failed, runs, delays, now>>


-----------------------------------------------------------------------------
(* WeiboDownloader.extract_status_id on its own *)

\* how many pieces a Weibo URL is made of
MaxUrlPieces == 3

StatusPieces ==
    { <<"h", "t", "t", "p", "s", ":", "/", "/">>, <<"m", ".">>, <<"w", "e", "i", "b", "o", ".", "c", "o", "m", "/">>, <<"w", "e", "i", "b", "o", ".", "c", "o", "m", "/", "u", "/">>,
      <<"w", "e", "i", "b", "o", ".", "c", "o", "m", "/", "1", "2", "/", "3", "4">>, <<"w", "e", "i", "b", "o", ".", "c", "n", "/", "s", "t", "a", "t", "u", "s", "/", "5", "6">>, <<"w", "e", "i", "b", "o", ".", "c", "n", "/", "d", "e", "t", "a", "i", "l", "/">>,
      <<"/", "1", "2", "3", "4", "5", "6", "7", "8", "9", "0", "1", "2", "3", "4", "5", "6">>, <<"/", "1", "2", "3", "4", "5", "6", "7", "8", "9", "0", "1", "2", "3", "4", "5">>, <<"/", "1", "2", "3", "4", "5", "6", "7", "8", "9", "0", "1", "2", "3", "4", "5", "6", "7", "x">>,
      <<"7", "8">>, <<"/">> }

StatusUrls == Concats(StatusPieces, MaxUrlPieces) \cup {WEIBO_POST, WEIBO_MOBILE_POST, WEIBO_HOME}

SidIdle == sid_url = <<>> /\ sid = NoResult

SidInit == sid_url \in StatusUrls /\ sid = NoResult

ExtractStatusId ==
    /\ sid = NoResult
    /\ sid' = extract_status_id(sid_url)
    /\ UNCHANGED sid_url

-----------------------------------------------------------------------------
(* Specifications *)

LocIdle ==
    /\ locator = "none" /\ post = <<>> /\ upstream = NoAnswer
    /\ located = NotCalled /\ net = <<>> /\ IgIdle

OrchIdle ==
    /\ program = "none" /\ qr = NoResult /\ opc = "none"
    /\ stages = <<>> /\ finished = NoResult

BatchIdle ==
    /\ inputs = <<>> /\ idx = 0 /\ success = 0 /\ failed = 0 /\ bpc = "none"
    /\ runs = <<>> /\ delays = <<>> /\ now = 0 /\ exit_status = -1

ClassifyInit == ClsInit /\ SanIdle /\ LocIdle /\ PathIdle /\ QrIdle /\ OrchIdle /\ BatchIdle /\ SidIdle
ClassifyNext == Classify /\ UNCHANGED <<sanVars, locVars, pathVars, qrVars, orchVars, batchVars, sidVars>>
SpecClassify == ClassifyInit /\ [][ClassifyNext]_vars

SanitizeInit == SanInit /\ ClsIdle /\ LocIdle /\ PathIdle /\ QrIdle /\ OrchIdle /\ BatchIdle /\ SidIdle
SanitizeNext ==
    \/ Sanitize /\ UNCHANGED <<clsVars, locVars, pathVars, qrVars, orchVars, batchVars, sidVars>>
    \/ SanitizeLegacy /\ UNCHANGED <<clsVars, locVars, pathVars, qrVars, orchVars, batchVars, sidVars>>
SpecSanitize == SanitizeInit /\ [][SanitizeNext]_vars

LocateInit == (XhsInit \/ WeiboInit \/ IgInit) /\ ClsIdle /\ SanIdle /\ PathIdle /\ QrIdle /\ OrchIdle /\ BatchIdle /\ SidIdle
LocateNext ==
    \/ XhsGetVideoInfo /\ UNCHANGED <<clsVars, sanVars, pathVars, qrVars, orchVars, batchVars, sidVars>>
    \/ WeiboGetVideoInfo /\ UNCHANGED <<clsVars, sanVars, pathVars, qrVars, orchVars, batchVars, sidVars>>
    \/ IgFirstAttempt /\ UNCHANGED <<clsVars, sanVars, pathVars, qrVars, orchVars, batchVars, sidVars>>
    \/ IgRetry /\ UNCHANGED <<clsVars, sanVars, pathVars, qrVars, orchVars, batchVars, sidVars>>
SpecLocate == LocateInit /\ [][LocateNext]_vars

UniqueInit == PathInit /\ ClsIdle /\ SanIdle /\ LocIdle /\ QrIdle /\ OrchIdle /\ BatchIdle /\ SidIdle
UniqueNext ==
    \/ UniqueCall /\ UNCHANGED <<clsVars, sanVars, locVars, qrVars, orchVars, batchVars, sidVars>>
    \/ UniqueLoop /\ UNCHANGED <<clsVars, sanVars, locVars, qrVars, orchVars, batchVars, sidVars>>
    \/ CreateFile /\ UNCHANGED <<clsVars, sanVars, locVars, qrVars, orchVars, batchVars, sidVars>>
SpecUnique == UniqueInit /\ [][UniqueNext]_vars

QrCodeInit == QrInit /\ ClsIdle /\ SanIdle /\ LocIdle /\ PathIdle /\ OrchIdle /\ BatchIdle /\ SidIdle
QrCodeNext ==
    \/ ReadOriginal /\ UNCHANGED <<clsVars, sanVars, locVars, pathVars, orchVars, batchVars, sidVars>>
    \/ ImRead /\ UNCHANGED <<clsVars, sanVars, locVars, pathVars, orchVars, batchVars, sidVars>>
    \/ Detect /\ UNCHANGED <<clsVars, sanVars, locVars, pathVars, orchVars, batchVars, sidVars>>
    \/ CropCorners /\ UNCHANGED <<clsVars, sanVars, locVars, pathVars, orchVars, batchVars, sidVars>>
    \/ ScanBottom /\ UNCHANGED <<clsVars, sanVars, locVars, pathVars, orchVars, batchVars, sidVars>>
    \/ Enhance /\ UNCHANGED <<clsVars, sanVars, locVars, pathVars, orchVars, batchVars, sidVars>>
    \/ Threshold /\ UNCHANGED <<clsVars, sanVars, locVars, pathVars, orchVars, batchVars, sidVars>>
    \/ ScaleWhole /\ UNCHANGED <<clsVars, sanVars, locVars, pathVars, orchVars, batchVars, sidVars>>
    \/ GiveUp /\ UNCHANGED <<clsVars, sanVars, locVars, pathVars, orchVars, batchVars, sidVars>>
SpecQrCode == QrCodeInit /\ [][QrCodeNext]_vars

Init == OrchInit /\ ClsIdle /\ SanIdle /\ LocIdle /\ PathIdle /\ QrIdle /\ BatchIdle /\ SidIdle
Next ==
    \/ ReadQrcode /\ UNCHANGED <<sanVars, qrVars, batchVars, sidVars>>
    \/ DetectPlatform /\ UNCHANGED <<sanVars, qrVars, batchVars, sidVars>>
    \/ Dispatch /\ UNCHANGED <<sanVars, qrVars, batchVars, sidVars>>
    \/ LocateXhs /\ UNCHANGED <<sanVars, qrVars, batchVars, sidVars>>
    \/ LocateWeibo /\ UNCHANGED <<sanVars, qrVars, batchVars, sidVars>>
    \/ LocateInstagram /\ UNCHANGED <<sanVars, qrVars, batchVars, sidVars>>
    \/ LocateInstagramAgain /\ UNCHANGED <<sanVars, qrVars, batchVars, sidVars>>
    \/ ComputePath /\ UNCHANGED <<sanVars, qrVars, batchVars, sidVars>>
    \/ PathCall /\ UNCHANGED <<sanVars, qrVars, batchVars, sidVars>>
    \/ PathLoop /\ UNCHANGED <<sanVars, qrVars, batchVars, sidVars>>
    \/ Transfer /\ UNCHANGED <<sanVars, qrVars, batchVars, sidVars>>
    \/ LegacyResolve /\ UNCHANGED <<sanVars, qrVars, batchVars, sidVars>>
    \/ LegacyLocate /\ UNCHANGED <<sanVars, qrVars, batchVars, sidVars>>
    \/ LegacyComputePath /\ UNCHANGED <<sanVars, qrVars, batchVars, sidVars>>
Spec == Init /\ [][Next]_vars

MainInit == BatchInit /\ ClsIdle /\ SanIdle /\ LocIdle /\ PathIdle /\ QrIdle /\ OrchIdle /\ SidIdle
MainNext ==
    \/ NextItem /\ UNCHANGED <<clsVars, sanVars, locVars, pathVars, qrVars, orchVars, sidVars>>
    \/ EndCall /\ UNCHANGED <<clsVars, sanVars, locVars, pathVars, qrVars, orchVars, sidVars>>
    \/ Sleep /\ UNCHANGED <<clsVars, sanVars, locVars, pathVars, qrVars, orchVars, sidVars>>
    \/ Exit /\ UNCHANGED <<clsVars, sanVars, locVars, pathVars, qrVars, orchVars, sidVars>>
SpecMain == MainInit /\ [][MainNext]_vars

StatusIdInit ==
    SidInit /\ ClsIdle /\ SanIdle /\ LocIdle /\ PathIdle /\ QrIdle /\ OrchIdle /\ BatchIdle
StatusIdNext ==
    ExtractStatusId /\ UNCHANGED <<clsVars, sanVars, locVars, pathVars, qrVars, orchVars, batchVars>>
SpecStatusId == StatusIdInit /\ [][StatusIdNext]_vars

-----------------------------------------------------------------------------
(* C1: detect_platform returns weibo when the lowercased URL contains        *)
(* weibo.com or weibo.cn, otherwise xiaohongshu when it contains             *)
(* xiaohongshu.com or xhslink.com, otherwise instagram when it contains      *)
(* instagram.com, otherwise it fails with UnknownPlatform; the first match   *)
(* in that order wins.                                                       *)
HasWeibo(u) == Contains(Lower(u), WEIBO_COM) \/ Contains(Lower(u), WEIBO_CN)
HasXhs(u) == Contains(Lower(u), XIAOHONGSHU_COM) \/ Contains(Lower(u), XHSLINK_COM)
HasInstagram(u) == Contains(Lower(u), INSTAGRAM_COM)

C1_FirstMatchWins ==
    platform # NoResult =>
        /\ HasWeibo(url) => platform = Returned(TagWeibo)
        /\ ~HasWeibo(url) /\ HasXhs(url) => platform = Returned(TagXiaohongshu)
        /\ ~HasWeibo(url) /\ ~HasXhs(url) /\ HasInstagram(url)
               => platform = Returned(TagInstagram)
        /\ ~HasWeibo(url) /\ ~HasXhs(url) /\ ~HasInstagram(url)
               => platform = Raised("UnknownPlatform")

\* a URL holding an instagram fragment, then an upper-case weibo.cn fragment, is tagged weibo
C1_Witness ==
    /\ platform = Returned(TagWeibo)
    /\ HasInstagram(url)
    /\ ~Contains(url, WEIBO_CN)
    /\ ~Contains(Lower(url), WEIBO_COM)

-----------------------------------------------------------------------------
(* C2: whatever the input, the sanitizer's output is non-empty, has at most  *)
(* 50 characters and holds none of < > : " / \ | ? * nor a newline or a      *)
(* carriage return.                                                          *)
HasInvalidChar(s) == \E i \in 1..Len(s) : s[i] \in InvalidChars

C2_SanitizedOutput ==
    ncalls >= 1 =>
        /\ filename # <<>>
        /\ Len(filename) <= 50
        /\ ~HasInvalidChar(filename)

\* an over-long text holding invalid characters was cut to exactly 50 clean characters
C2_Witness ==
    /\ ncalls = 1
    /\ variant = "current"
    /\ Len(original) > 50
    /\ HasInvalidChar(original)
    /\ Len(filename) = 50

(* C3: sanitize_filename is idempotent: sanitizing its own output returns    *)
(* that output unchanged.                                                    *)
C3_Idempotent ==
    (variant = "current" /\ ncalls = 2) => filename = previous

(* C4: on every platform the title a successful get_video_info returns is   *)
(* sanitized and bounded: at most 50 characters, none of them < > : " / \   *)
(* | ? * or a newline, the fallback titles included.                        *)
C4_TitleSanitized ==
    located.ok => Len(located.title) <= 50 /\ ~HasInvalidChar(located.title)

(* C5: whatever the platform answers, get_video_info returns a non-empty    *)
(* media URL or fails with an error: it never returns an empty or null one. *)
C5_MediaUrlOrError ==
    /\ located.ok => Present(located.video_url)
    /\ (located # NotCalled /\ ~located.ok) => located.err \notin {"none", "not called"}

\* the Weibo locator passed over an empty 720p field and returned a later one
C5_Witness ==
    /\ locator = "weibo"
    /\ located.ok
    /\ upstream.mp4_720p_mp4 = <<>>
    /\ located.video_url # <<>>

(* C6: get_unique_path terminates and returns a path that does not exist:   *)
(* the requested path P when it is free, otherwise base_k ext for the       *)
(* smallest k >= 1 that is free. Successive requests for P, each followed   *)
(* by the creation of the returned file, return paths with a strictly       *)
(* increasing counter: P, base_1 ext, base_2 ext, ... in an empty directory.*)

\* P for k = 0, base_k ext for k >= 1, with base and ext the two parts of P
Variant(p, k) ==
    IF k = 0 THEN p
    ELSE splitext(p).base \o <<"_">> \o Decimal(k) \o splitext(p).ext

\* the counter of a returned path: 0 for P itself
CounterOf(p, path) ==
    CHOOSE k \in 0..(MaxFiles + MaxRequests + 1) : Variant(p, k) = path

C6_UniquePath ==
    /\ gpc = "loop" => counter <= Cardinality(files) + 1
    /\ gpc = "returned" =>
          /\ output_path \notin files
          /\ \E k \in 0..Cardinality(files) :
                /\ output_path = Variant(requested, k)
                /\ \A j \in 0..(k - 1) : Variant(requested, j) \in files
    /\ \A n \in 1..Len(results) :
          /\ \E k \in 0..(MaxFiles + MaxRequests + 1) : results[n] = Variant(requested, k)
          /\ n > 1 => CounterOf(requested, results[n]) > CounterOf(requested, results[n - 1])

\* the third request in a row got base_2 ext after P and base_1 ext
C6_Witness ==
    /\ gpc = "returned"
    /\ Len(results) = 3
    /\ results[1] = requested
    /\ results[2] = Variant(requested, 1)
    /\ results[3] = Variant(requested, 2)

(* C7: on an existing image read_qrcode makes its attempts in the fixed     *)
(* order of the stages 1..7 (stage 3 only when the detector located the     *)
(* corners without decoding), each attempt only after every earlier one     *)
(* produced nothing; it returns the payload of the first attempt that       *)
(* decodes; it fails with NoQrFound only after every stage was attempted    *)
(* without a result. When stage 1 produces nothing and OpenCV cannot load   *)
(* the image it fails at once with another error, stages 2..7 unattempted.  *)

\* the whole cascade for the image: stage 3 belongs to it when corners are located
ExpectedOrder ==
    IF image.corners THEN Cascade
    ELSE SelectSeq(Cascade, LAMBDA a : a.stage # 3)

IsPrefix(s, t) == Len(s) <= Len(t) /\ \A i \in 1..Len(s) : s[i] = t[i]

C7_CascadeOrder ==
    image.exists =>
        /\ IsPrefix(tried, ExpectedOrder)
        /\ \A i \in 1..(Len(tried) - 1) : tried[i] \notin image.decodable
        /\ decoded.ok =>
              /\ tried # <<>>
              /\ tried[Len(tried)] \in image.decodable
              /\ decoded.val = Payload(tried[Len(tried)])
        /\ decoded.err = "NoQrFound" =>
              /\ tried = ExpectedOrder
              /\ \A i \in 1..Len(tried) : tried[i] \notin image.decodable
        /\ decoded.err = "CouldNotRead" =>
              /\ tried = <<Attempt(1, 1)>>
              /\ ~image.readable
        /\ decoded.err \in {"none", "not called", "NoQrFound", "CouldNotRead"}

\* the eleven attempts, the corner crop included, were all made in vain
C7_Witness ==
    /\ image.exists
    /\ decoded = Raised("NoQrFound")
    /\ tried = Cascade

\* C7 as first stated: the call on an existing image fails only with
\* NoQrFound, after every stage was attempted
C7_FailsOnlyWhenExhausted ==
    (image.exists /\ qpc = "done" /\ ~decoded.ok) =>
        decoded.err = "NoQrFound" /\ tried = ExpectedOrder

(* C8: InstagramDownloader.get_video_info makes at most two extraction      *)
(* attempts: the first without credential material; a second, with          *)
(* credential material, exactly when the first failed with a message of     *)
(* rate-limiting, login required or unavailable content; any other failure  *)
(* of the first attempt, and any failure of the second, propagates.         *)
RetryErrors == {"RateLimited", "LoginRequired", "Unavailable"}

WithoutCredentials(opts) == opts.cookiefile = None /\ opts.cookiesfrombrowser = None

WithCredentials(opts) ==
    \/ opts.cookiefile # None /\ opts.cookiefile # <<>>
    \/ opts.cookiesfrombrowser # None /\ opts.cookiesfrombrowser # <<>>

C8_RetryPolicy ==
    locator = "instagram" =>
        /\ Len(attempts) <= 2
        /\ Len(attempts) >= 1 => WithoutCredentials(attempts[1].opts)
        /\ Len(attempts) = 2 =>
              /\ WithCredentials(attempts[2].opts)
              /\ attempts[1].err \in RetryErrors
        /\ (Len(attempts) = 1 /\ attempts[1].err \in RetryErrors) => igpc = "retry"
        /\ (Len(attempts) = 1 /\ attempts[1].err \notin RetryErrors) =>
              igpc = "done" /\ located.err = attempts[1].err
        /\ Len(attempts) = 2 => igpc = "done" /\ located.err = attempts[2].err
        /\ igpc = "done" => Len(attempts) >= 1

\* with no cookie source configured, the retry used the chrome profile and failed too
C8_Witness ==
    /\ locator = "instagram"
    /\ cookies = NoCookies
    /\ Len(attempts) = 2
    /\ attempts[1].err = "LoginRequired"
    /\ attempts[2].opts.cookiesfrombrowser = CHROME
    /\ igpc = "done"
    /\ ~located.ok

(* C9: within one run the stages are entered in the order decode, classify, *)
(* locate, compute output path, transfer, and the first failing stage ends  *)
(* the run with that stage's error: once decode, classify or locate has     *)
(* failed, get_unique_path is never entered, no transfer is started, no     *)
(* file is written, and no later stage is entered.                          *)
StageOrder ==
    IF program = "legacy"
    THEN IF Len(stages) >= 2 /\ stages[2] = "resolve"
         THEN <<"decode", "resolve", "locate", "path", "transfer">>
         ELSE <<"decode", "locate", "path", "transfer">>
    ELSE <<"decode", "classify", "locate", "path", "transfer">>

\* the result of a stage that has run, NoResult for one that has not ended
ResultOf(stage) ==
    CASE stage = "decode" -> IF stages = <<>> THEN NoResult ELSE qr
      [] stage = "classify" -> platform
      [] stage = "locate" ->
            IF located = NotCalled THEN NoResult
            ELSE IF located.ok THEN Returned(located.video_url) ELSE Raised(located.err)

HasFailed(stage) == ResultOf(stage) # NoResult /\ ~ResultOf(stage).ok

C9_FailFast ==
    /\ IsPrefix(stages, StageOrder)
    /\ \A stage \in {"decode", "classify", "locate"} :
          HasFailed(stage) =>
              /\ opc = "done"
              /\ finished = Raised(ResultOf(stage).err)
              /\ stages[Len(stages)] = stage
              /\ gpc = "none" /\ requested = <<>> /\ output_path = <<>>
              /\ results = <<>> /\ files = {}

\* a Weibo post that is not a video: the run ended in locate with that error
C9_Witness ==
    /\ program = "current"
    /\ locator = "weibo"
    /\ upstream.http_ok /\ upstream.ok = 1 /\ upstream.type # TYPE_VIDEO
    /\ located = NotLocated("NotAVideo")
    /\ finished = Raised("NotAVideo")
    /\ stages = <<"decode", "classify", "locate">>
    /\ opc = "done"

(* C10: for image input, a decoded payload that contains the short-link     *)
(* domain or is shorter than 50 characters is resolved by following         *)
(* redirects before any further use, so the resolution is the first request *)
(* made; a payload of 50 or more characters that is not on the short-link   *)
(* domain is used as it is, with no redirect resolution.                    *)
NeedsResolution(payload) ==
    Contains(payload, XHSLINK_COM) \/ Len(payload) < SHORT_LINK_LEN

C10_ResolveBeforeUse ==
    (qr.ok /\ located # NotCalled) =>
        IF NeedsResolution(qr.val)
        THEN net # <<>> /\ net[1] = Request("resolve", qr.val)
        ELSE \A i \in 1..Len(net) : net[i].kind # "resolve"

(* C11: in batch mode every input is processed exactly once and in the      *)
(* given order whatever the earlier outcomes: a failure is counted and the  *)
(* loop goes on with the next input. At the end the success and failure     *)
(* counters sum to the number of inputs, and the exit status is 0 exactly   *)
(* when no input failed and 1 otherwise.                                    *)
Ended == {k \in 1..Len(runs) : runs[k].end >= 0}

C11_BatchTally ==
    bpc # "none" =>
        /\ Len(runs) <= Len(inputs)
        /\ \A k \in 1..Len(runs) : runs[k].index = k
        /\ success = Cardinality({k \in Ended : inputs[k].ok})
        /\ failed = Cardinality({k \in Ended : ~inputs[k].ok})
        /\ bpc \in {"summary", "exited"} =>
              /\ Len(runs) = Len(inputs)
              /\ Ended = 1..Len(inputs)
              /\ success + failed = Len(inputs)
        /\ bpc = "exited" =>
              /\ exit_status \in {0, 1}
              /\ exit_status = 0 <=> failed = 0
              /\ exit_status = 0 <=> \A k \in 1..Len(inputs) : inputs[k].ok
        /\ bpc # "exited" => exit_status = -1

\* the first of three inputs failed, the two after it were still processed
C11_Witness ==
    /\ bpc = "exited"
    /\ Len(inputs) = 3
    /\ ~inputs[1].ok /\ inputs[2].ok /\ inputs[3].ok
    /\ Len(runs) = 3
    /\ success = 2 /\ failed = 1
    /\ exit_status = 1

(* C12: extract_status_id tries its patterns in a fixed order and returns   *)
(* the capture of the first pattern that matches, at its leftmost match:    *)
(* the digits after a numeric user id on weibo.com/, then the digits after  *)
(* weibo.cn/status/, then 16 or more digits after a slash; it fails when    *)
(* none matches. Both example URLs yield 4567890123456789.                  *)

\* positions a..b hold a run of digits that ends at b
DigitRun(s, a, b) ==
    /\ a <= b /\ b <= Len(s)
    /\ \A k \in a..b : s[k] \in Digits
    /\ b = Len(s) \/ s[b + 1] \notin Digits

\* the texts pattern p captures in s when matched at position i
CapturesAt(s, p, i) ==
    CASE p = 1 ->
            IF ~StartsAt(s, i, WEIBO_COM_SLASH) THEN {}
            ELSE LET from == i + Len(WEIBO_COM_SLASH)
                 IN { SubSeq(s, mb[1] + 2, mb[2]) :
                        mb \in { x \in (from..Len(s)) \X (from..Len(s)) :
                                   /\ DigitRun(s, from, x[1])
                                   /\ x[1] < Len(s) /\ s[x[1] + 1] = "/"
                                   /\ DigitRun(s, x[1] + 2, x[2]) } }
      [] p = 2 ->
            IF ~StartsAt(s, i, WEIBO_CN_STATUS) THEN {}
            ELSE LET from == i + Len(WEIBO_CN_STATUS)
                 IN { SubSeq(s, from, b) : b \in { x \in from..Len(s) : DigitRun(s, from, x) } }
      [] p = 3 ->
            IF s[i] # "/" THEN {}
            ELSE { SubSeq(s, i + 1, b) :
                     b \in { x \in (i + 16)..Len(s) : DigitRun(s, i + 1, x) } }

MatchesOf(s, p) == {i \in 1..Len(s) : CapturesAt(s, p, i) # {}}

STATUS_ID_EXAMPLE == <<"4", "5", "6", "7", "8", "9", "0", "1", "2", "3", "4", "5", "6", "7", "8", "9">>

C12_FirstPatternWins ==
    sid # NoResult =>
        LET matching == {p \in 1..3 : MatchesOf(sid_url, p) # {}}
        IN /\ matching = {} => ~sid.ok
           /\ matching # {} =>
                 LET p == CHOOSE q \in matching : \A r \in matching : q <= r
                     i == CHOOSE j \in MatchesOf(sid_url, p) :
                              \A k \in MatchesOf(sid_url, p) : j <= k
                 IN sid.ok /\ CapturesAt(sid_url, p, i) = {sid.val}
           /\ sid_url \in {WEIBO_POST, WEIBO_MOBILE_POST} => sid = Returned(STATUS_ID_EXAMPLE)

\* a user-id match that stands after a status match in the text still wins
C12_Witness ==
    /\ sid_url = <<"w", "e", "i", "b", "o", ".", "c", "n", "/", "s", "t", "a", "t", "u", "s", "/", "5", "6", "w", "e", "i", "b", "o", ".", "c", "o", "m", "/", "1", "2", "/", "3", "4">>
    /\ sid = Returned(<<"3", "4">>)

(* C13: once the status API has answered, WeiboDownloader.get_video_info    *)
(* fails with ApiError when the success flag is not 1, then with NotAVideo  *)
(* when page_info.type is not 'video'; otherwise the media URL is the first *)
(* non-empty of the 720p, HD and standard-definition MP4 fields, and only   *)
(* when all three are empty the first non-empty of stream_url_hd and        *)
(* stream_url; with all five empty it fails with NoVideoFound.              *)
NonEmpty(field) == field # None /\ field # <<>>

C13_ResponseOrder ==
    (locator = "weibo" /\ located # NotCalled /\ extract_status_id(post).ok /\ upstream.http_ok) =>
        IF upstream.ok # 1 THEN located = NotLocated("ApiError")
        ELSE IF upstream.type # TYPE_VIDEO THEN located = NotLocated("NotAVideo")
        ELSE IF NonEmpty(upstream.mp4_720p_mp4) THEN located.ok /\ located.video_url = upstream.mp4_720p_mp4
        ELSE IF NonEmpty(upstream.mp4_hd_mp4) THEN located.ok /\ located.video_url = upstream.mp4_hd_mp4
        ELSE IF NonEmpty(upstream.mp4_ld_mp4) THEN located.ok /\ located.video_url = upstream.mp4_ld_mp4
        ELSE IF NonEmpty(upstream.stream_url_hd) THEN located.ok /\ located.video_url = upstream.stream_url_hd
        ELSE IF NonEmpty(upstream.stream_url) THEN located.ok /\ located.video_url = upstream.stream_url
        ELSE located = NotLocated("NoVideoFound")

\* only the last of the five fields holds a URL, the first holds an empty text
C13_Witness ==
    /\ locator = "weibo"
    /\ upstream.http_ok /\ upstream.ok = 1 /\ upstream.type = TYPE_VIDEO
    /\ upstream.mp4_720p_mp4 = <<>> /\ upstream.mp4_hd_mp4 = None /\ upstream.mp4_ld_mp4 = <<>>
    /\ upstream.stream_url_hd = None /\ NonEmpty(upstream.stream_url)
    /\ located.ok
    /\ located.video_url = upstream.stream_url

(* C14: for an info object of the extraction engine, _parse_video_info      *)
(* returns the URL of the first format in list order whose ext is mp4 and   *)
(* whose acodec and vcodec are both other than 'none'; when there is no     *)
(* such format, or that format holds no URL, it returns the default url     *)
(* field of the info object; it fails with NoVideoFound only when neither   *)
(* the selected format nor the default field holds a URL.                   *)
Muxed(formats) ==
    {i \in 1..Len(formats) :
        /\ formats[i].ext = MP4
        /\ formats[i].acodec # CODEC_NONE
        /\ formats[i].vcodec # CODEC_NONE}

C14_FormatSelection ==
    (locator = "instagram" /\ igpc = "done" /\ upstream.ok) =>
        LET info == upstream.info
            muxed == Muxed(info.formats)
            selected == IF muxed = {} THEN None
                        ELSE info.formats[CHOOSE i \in muxed : \A j \in muxed : i <= j].url
        IN IF info.empty THEN ~located.ok
           ELSE IF NonEmpty(selected) THEN located.ok /\ located.video_url = selected
           ELSE IF NonEmpty(info.url) THEN located.ok /\ located.video_url = info.url
           ELSE located = NotLocated("NoVideoFound")

\* the first muxed format holds no URL: the default field is returned, although
\* a second muxed format holds one
C14_Witness ==
    /\ locator = "instagram" /\ igpc = "done" /\ upstream.ok /\ ~upstream.info.empty
    /\ Len(upstream.info.formats) = 2
    /\ Muxed(upstream.info.formats) = {1, 2}
    /\ upstream.info.formats[1].url = None
    /\ NonEmpty(upstream.info.formats[2].url)
    /\ NonEmpty(upstream.info.url)
    /\ located.ok
    /\ located.video_url = upstream.info.url

(* C15: the Xiaohongshu locator takes the media URL from the first          *)
(* masterUrl field of the page, from the first backupUrls entry only when   *)
(* no masterUrl field matches, and fails with NoVideoFound when neither     *)
(* matches; the title is the sanitized first title field of the page, or    *)
(* the placeholder without one. The page with the masterUrl                 *)
(* https://cdn.example/v.mp4 and the title My Trip yields that pair, and    *)
(* the output path <dir>/My Trip.mp4 in an empty directory. The pattern     *)
(* search of the legacy get_video_url does the same.                        *)
CDN_MASTER == <<"h", "t", "t", "p", "s", ":", "/", "/", "c", "d", "n", ".", "e", "x", "a", "m", "p", "l", "e", "/", "v", ".", "m", "p", "4">>
CDN_BACKUP == <<"h", "t", "t", "p", "s", ":", "/", "/", "c", "d", "n", ".", "e", "x", "a", "m", "p", "l", "e", "/", "b", ".", "m", "p", "4">>
MY_TRIP == <<"M", "y", " ", "T", "r", "i", "p">>
MY_TRIP_PATH == <<"d", "/", "M", "y", " ", "T", "r", "i", "p", ".", "m", "p", "4">>

\* what the claim expects of a page made of the three fields
ExpectedOf(html) ==
    LET video_url == IF Contains(html, PART_MASTER_URL) THEN CDN_MASTER
                     ELSE IF Contains(html, PART_BACKUP_URLS) THEN CDN_BACKUP
                     ELSE None
        title == IF Contains(html, PART_TITLE) THEN MY_TRIP ELSE <<"x", "h", "s", "_", "v", "i", "d", "e", "o">>
    IN IF video_url = None THEN NotLocated("NoVideoFound") ELSE Located(video_url, title)

\* the page the locator has searched, None when it searched none of the pages
\* made of the three fields
SearchedPage ==
    IF located = NotCalled THEN None
    ELSE IF program = "current" /\ locator = "xhs"
    THEN IF upstream.fetched.ok /\ upstream.fetched.val \in OrchPages
            /\ (Contains(post, XHSLINK_COM) => upstream.redirect.ok)
         THEN upstream.fetched.val
         ELSE None
    ELSE IF program = "legacy"
    THEN IF upstream.ok /\ upstream.val.state.kind # "parsed" /\ upstream.val.html \in OrchPages
         THEN upstream.val.html
         ELSE None
    ELSE None

C15_SearchOrder ==
    SearchedPage # None =>
        /\ located = ExpectedOf(SearchedPage)
        /\ SearchedPage = PART_MASTER_URL \o PART_TITLE =>
              /\ located = Located(CDN_MASTER, MY_TRIP)
              /\ opc \in {"unique", "transfer", "done"} => requested = MY_TRIP_PATH
              /\ (opc = "transfer" /\ files = {}) => output_path = MY_TRIP_PATH

\* the example page, an empty directory: the video went to <dir>/My Trip.mp4
C15_Witness ==
    /\ program = "current"
    /\ locator = "xhs"
    /\ upstream.fetched = Returned(PART_MASTER_URL \o PART_TITLE)
    /\ located = Located(CDN_MASTER, MY_TRIP)
    /\ files = {MY_TRIP_PATH}
    /\ finished = Returned(MY_TRIP_PATH)

(* C16: in batch mode the inputs are processed strictly one after another,  *)
(* and a delay of 3 to 6 seconds is inserted after an item exactly when     *)
(* that item was retrieved successfully from Instagram and another input    *)
(* remains: no delay follows a failed item, an item of another platform or  *)
(* the last item, and the next input is not started before the delay has    *)
(* elapsed.                                                                 *)
DelaysAfter(k) == {d \in 1..Len(delays) : delays[d].after = k}

\* item k is over for good: the next item has started or the loop has ended
Left(k) == k < Len(runs) \/ bpc \in {"summary", "exited"}

C16_DelayPolicy ==
    /\ \A k \in 1..(Len(runs) - 1) :
          /\ runs[k].end >= runs[k].start
          /\ runs[k + 1].start >= runs[k].end
    /\ \A d \in 1..Len(delays) :
          /\ delays[d].seconds \in DELAY_MIN..DELAY_MAX
          /\ delays[d].from >= runs[delays[d].after].end
          /\ delays[d].to >= delays[d].from + delays[d].seconds
    /\ \A k \in 1..Len(runs) :
          Left(k) =>
              IF inputs[k].ok /\ inputs[k].platform = TagInstagram /\ k < Len(inputs)
              THEN /\ Cardinality(DelaysAfter(k)) = 1
                   /\ \A d \in DelaysAfter(k) :
                         runs[k + 1].start >= runs[k].end + delays[d].seconds
              ELSE DelaysAfter(k) = {}

\* three Instagram items: a delay after the first, none after the failed second
\* and none after the last
C16_Witness ==
    /\ bpc = "exited"
    /\ Len(inputs) = 3
    /\ \A k \in 1..3 : inputs[k].platform = TagInstagram
    /\ inputs[1].ok /\ ~inputs[2].ok /\ inputs[3].ok
    /\ Len(delays) = 1
    /\ delays[1].after = 1
    /\ runs[2].start >= runs[1].end + DELAY_MIN
====
